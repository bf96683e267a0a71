----------------------------- MODULE RingProofs -----------------------------
(***************************************************************************)
(* What Ring promises for every capacity, fade, pull and bound: its types, *)
(* that a seek once answered leaves nothing stale to be heard, and that    *)
(* the engine and the callback count alike.                                *)
(***************************************************************************)
EXTENDS Ring, SequenceTheorems, TLAPS

-----------------------------------------------------------------------------
(* What the helpers return.                                                *)

LEMMA LeastType ==
  ASSUME NEW a \in Nat, NEW b \in Nat
  PROVE  Least(a, b) \in Nat /\ Least(a, b) <= a /\ Least(a, b) <= b
  BY DEF Least

LEMMA GreatestType ==
  ASSUME NEW a \in Nat, NEW b \in Nat
  PROVE  Greatest(a, b) \in Nat /\ Greatest(a, b) >= a /\ Greatest(a, b) >= b
  BY DEF Greatest

LEMMA LessType ==
  ASSUME NEW a \in Nat, NEW b \in Nat
  PROVE  Less(a, b) \in Nat /\ Less(a, b) <= a
  BY DEF Less

LEMMA StaleType ==
  ASSUME NEW spliced \in Spliced
  PROVE  Stale(spliced) \in Nat
  BY LessType DEF Stale, Spliced

LEMMA NoneType == None \in Spliced
  BY DEF None, Spliced

\* A step of the fade is at least one and at most the whole of it.
LEMMA StepType ==
  ASSUME over \in Overs
  PROVE  Step \in Nat /\ Step >= 1
<1>1. over \in Nat /\ over >= 1 /\ over <= Whole /\ Whole \in Nat
  BY RingAssumption
<1>2. QED
  BY <1>1, Z3 DEF Step

LEMMA FramesUntilSilentType ==
  ASSUME over \in Overs, level \in Nat
  PROVE  FramesUntilSilent \in Nat
<1>1. Step \in Nat /\ Step >= 1
  BY StepType
<1>2. level + Step - 1 \in Nat
  BY <1>1
<1>3. ASSUME NEW a \in Nat, NEW b \in Nat, b >= 1 PROVE a \div b \in Nat
  BY <1>3, Z3
<1>4. QED
  BY <1>1, <1>2, <1>3 DEF FramesUntilSilent

LEMMA TowardType ==
  ASSUME over \in Overs, NEW from \in 0..Whole, NEW to \in 0..Whole, NEW frames \in Nat
  PROVE  Toward(from, to, frames) \in 0..Whole
<1>1. Step \in Nat /\ Whole \in Nat
  BY StepType, RingAssumption
<1>2. frames * Step \in Nat
  BY <1>1, Z3
<1>3. QED
  BY <1>1, <1>2 DEF Toward, Least, Greatest, Less

LEMMA RenderedType ==
  ASSUME requested \in Nat, NEW first \in Nat, NEW frames \in Nat
  PROVE  /\ Rendered(first, frames) \in Seq(Frame)
         /\ Len(Rendered(first, frames)) = frames
         /\ \A i \in 1..frames : Rendered(first, frames)[i].epoch = requested
<1>1. \A i \in 1..frames : [epoch |-> requested, plays |-> first + i - 1] \in Frame
  BY DEF Frame
<1>2. QED
  BY <1>1 DEF Rendered

\* What is left of the ring once its first frames are taken.
LEMMA TailOfRing ==
  ASSUME NEW held \in Seq(Frame), NEW frames \in Nat, frames <= Len(held)
  PROVE  LET tail == SubSeq(held, frames + 1, Len(held)) IN
         /\ tail \in Seq(Frame)
         /\ Len(tail) = Len(held) - frames
         /\ \A i \in 1..Len(tail) : tail[i] = held[frames + i]
<1>1. Len(held) \in Nat /\ \A i \in 1..Len(held) : held[i] \in Frame
  BY LenProperties, ElementOfSeq
<1>2. \A i \in frames + 1 .. Len(held) : held[i] \in Frame
  BY <1>1
<1>3. /\ SubSeq(held, frames + 1, Len(held)) \in Seq(Frame)
      /\ Len(SubSeq(held, frames + 1, Len(held)))
           = IF frames + 1 <= Len(held) THEN Len(held) - (frames + 1) + 1 ELSE 0
      /\ \A i \in 1 .. Len(held) - (frames + 1) + 1 :
           SubSeq(held, frames + 1, Len(held))[i] = held[frames + 1 + i - 1]
  BY <1>1, <1>2, SubSeqProperties
<1>4. QED
  BY <1>1, <1>3

-----------------------------------------------------------------------------
(* Types.                                                                  *)

\* What a splice rewrites is in the ring before its replacement is rendered.
RenderingAhead == producing = "rendering" => splicing.to <= written

TypeInv == TypeOK /\ RenderingAhead

LEMMA AvailableFramesType == TypeOK => AvailableFrames \in Nat
  BY LenProperties, StaleType, LessType DEF AvailableFrames, TypeOK, FramesTyped, AsksTyped, FaderTyped, ProducerTyped, ConsumerTyped

LEMMA HeardAsType ==
  ASSUME TypeOK, NEW at \in Nat PROVE HeardAs(at) \in Nat
  BY LessType DEF HeardAs, TypeOK, FramesTyped, AsksTyped, FaderTyped, ProducerTyped, ConsumerTyped

LEMMA HeldFramesType == TypeOK => Occupied \in Nat /\ HeldFrames \in Nat
  BY LenProperties, StaleType, LessType DEF HeldFrames, Occupied, TypeOK, FramesTyped, AsksTyped, FaderTyped, ProducerTyped, ConsumerTyped

LEMMA FreeFramesType == TypeOK => FreeFrames \in Int
  BY HeldFramesType, LessType, RingAssumption DEF FreeFrames, RoomFrames, Room, Least

LEMMA SplicePointType == TypeOK => SplicePoint \in Nat
<1> SUFFICES ASSUME TypeOK PROVE SplicePoint \in Nat
  OBVIOUS
<1>1. ReadSoFar \in Nat
  BY HeldFramesType, LessType DEF ReadSoFar, TypeOK, FramesTyped, AsksTyped, FaderTyped, ProducerTyped, ConsumerTyped
<1>2. Greatest(Ahead, 2 * pulled) \in Nat
  <2>1. Ahead \in Nat /\ 2 * pulled \in Nat
    BY RingAssumption DEF TypeOK, FramesTyped, AsksTyped, FaderTyped, ProducerTyped, ConsumerTyped
  <2>2. QED
    BY <2>1, GreatestType
<1>3. QED
  BY <1>1, <1>2 DEF SplicePoint

\* What a fade or a pull is given to take is a count of frames.
LEMMA ToTakeType ==
  ASSUME TypeOK
  PROVE  Least(Least(wanted, AvailableFrames), FramesUntilSilent) \in Nat
         /\ Least(Least(wanted, AvailableFrames), wanted) \in Nat
<1>1. wanted \in Nat /\ AvailableFrames \in Nat /\ FramesUntilSilent \in Nat
  BY AvailableFramesType, FramesUntilSilentType DEF TypeOK, FramesTyped, AsksTyped, FaderTyped, ProducerTyped, ConsumerTyped
<1>2. QED
  BY <1>1, LeastType

LEMMA TypeInvInit == Init => TypeInv
<1> SUFFICES ASSUME Init PROVE TypeInv
  OBVIOUS
<1>1. ring \in Seq(Frame) /\ heard \in Seq(Frame)
  BY EmptySeq DEF Init
<1>2. level \in 0..Whole
  BY RingAssumption DEF Init, Silent
<1>3. splicing \in Spliced /\ pending \in Spliced
  BY NoneType DEF Init
<1>4. QED
  BY <1>1, <1>2, <1>3 DEF Init, TypeInv, TypeOK, FramesTyped, AsksTyped, FaderTyped, ProducerTyped, ConsumerTyped, RenderingAhead

LEMMA TypeInvStep == TypeInv /\ [Next]_vars => TypeInv'
<1> SUFFICES ASSUME TypeInv, [Next]_vars PROVE TypeInv'
  OBVIOUS
<1>t. FreeFrames \in Int /\ \A at \in Nat : HeardAs(at) \in Nat
  BY FreeFramesType, HeardAsType DEF TypeInv
<1>p. TypeOK /\ FramesTyped /\ AsksTyped /\ FaderTyped /\ ProducerTyped /\ ConsumerTyped /\ RenderingAhead
  BY DEF TypeInv, TypeOK
<1> USE DEF shared, atomics, requests, asks, graph, fader,
            producer, consumer, history, Turn
<1>q. /\ ring \in Seq(Frame) /\ Len(ring) \in Nat /\ requested \in Nat /\ over \in Overs
      /\ written \in Nat /\ splicing \in Spliced /\ wanted \in Nat /\ left \in Nat
      /\ pending \in Spliced /\ read \in Nat /\ level \in 0..Whole /\ inOrder \in BOOLEAN
      /\ asked \in Nat /\ pulled \in Nat /\ spliceAt \in Nat /\ spliceTo \in Nat
  BY <1>p, LenProperties DEF FramesTyped, AsksTyped, FaderTyped, ProducerTyped, ConsumerTyped
<1>b. CASE Write
  <2>1. PICK frames \in 1..FreeFrames :
          /\ ring' = ring \o Rendered(HeardAs(written), frames)
          /\ written' = written + frames
    BY <1>q, <1>b DEF Write
  <2>2. frames \in Nat /\ HeardAs(written) \in Nat
    BY <1>q, <1>t
  <2>3. ring' \in Seq(Frame)
    BY <1>q, <2>1, <2>2, RenderedType, ConcatProperties
  <2>4. FramesTyped'
    <3>1. Greatest(surplus, Stale(splicing)) \in Nat
      BY <1>p, <1>q, StaleType, GreatestType DEF FramesTyped
    <3>2. surplus' = (IF InPassing THEN Greatest(surplus, Stale(splicing)) ELSE surplus)
      BY <1>b DEF Write
    <3>3. surplus' \in Nat
      BY <1>p, <3>1, <3>2 DEF FramesTyped
    <3>4. UNCHANGED <<heard, inOrder, amid>>
      BY <1>b DEF Write
    <3>5. QED
      BY <1>p, <2>3, <3>3, <3>4 DEF FramesTyped
  <2>5. AsksTyped'
    BY <1>p, <1>b, <2>1, <2>2, <2>3 DEF Write, AsksTyped
  <2>6. FaderTyped'
    BY <1>p, <1>b, <2>1, <2>2, <2>3 DEF Write, FaderTyped
  <2>7. ProducerTyped'
    BY <1>p, <1>b, <2>1, <2>2, <2>3 DEF Write, ProducerTyped
  <2>8. ConsumerTyped'
    BY <1>p, <1>b, <2>1, <2>2, <2>3 DEF Write, ConsumerTyped
  <2>9. RenderingAhead'
    BY <1>p, <1>b, <2>1, <2>2, <2>3 DEF Write, RenderingAhead, ProducerTyped
  <2>10. QED
    BY <2>4, <2>5, <2>6, <2>7, <2>8, <2>9 DEF TypeInv, TypeOK
<1>c. CASE WriteSpliced
  <2>1. PICK frames \in 1..Less(Stale(splicing), written - splicing.to) :
          /\ ring' = ring \o Rendered(HeardAs(splicing.at) + written - splicing.to, frames)
          /\ written' = written + frames
    BY <1>q, <1>c DEF WriteSpliced
  <2>2. splicing.at \in Nat /\ splicing.to \in Nat /\ written - splicing.to \in Nat
    BY <1>q, <1>c, <1>p DEF WriteSpliced, Spliced, RenderingAhead
  <2>3. frames \in Nat /\ HeardAs(splicing.at) \in Nat
    <3>1. Less(Stale(splicing), written - splicing.to) \in Nat
      BY <1>q, <2>2, StaleType, LessType
    <3>2. frames \in Nat
      BY <1>q, <3>1
    <3>3. HeardAs(splicing.at) \in Nat
      BY <1>q, <1>t, <2>2
    <3>4. QED
      BY <1>q, <3>2, <3>3
  <2>4. HeardAs(splicing.at) + written - splicing.to \in Nat
    BY <1>q, <2>2, <2>3
  <2>5. ring' \in Seq(Frame)
    BY <1>q, <2>1, <2>3, <2>4, RenderedType, ConcatProperties
  <2>6. FramesTyped'
    BY <1>p, <1>c, <2>1, <2>2, <2>3, <2>5 DEF WriteSpliced, FramesTyped
  <2>7. AsksTyped'
    BY <1>p, <1>c, <2>1, <2>2, <2>3, <2>5 DEF WriteSpliced, AsksTyped
  <2>8. FaderTyped'
    BY <1>p, <1>c, <2>1, <2>2, <2>3, <2>5 DEF WriteSpliced, FaderTyped
  <2>9. ProducerTyped'
    BY <1>p, <1>c, <2>1, <2>2, <2>3, <2>5 DEF WriteSpliced, ProducerTyped
  <2>10. ConsumerTyped'
    BY <1>p, <1>c, <2>1, <2>2, <2>3, <2>5 DEF WriteSpliced, ConsumerTyped
  <2>11. RenderingAhead'
    BY <1>p, <1>c, <2>1, <2>2, <2>3, <2>5 DEF WriteSpliced, RenderingAhead, ProducerTyped
  <2>12. QED
    BY <2>6, <2>7, <2>8, <2>9, <2>10, <2>11 DEF TypeInv, TypeOK
<1>d. CASE Pull
  <2>1. pending' \in Spliced
    BY <1>q, <1>d DEF Pull, Spliced
  <2>2. wanted' \in Nat /\ pulled' \in Nat
    BY <1>q, <1>d, RingAssumption DEF Pull
  <2>3. FramesTyped'
    BY <1>p, <1>d, <2>1, <2>2 DEF Pull, FramesTyped
  <2>4. AsksTyped'
    BY <1>p, <1>d, <2>1, <2>2 DEF Pull, AsksTyped
  <2>5. FaderTyped'
    BY <1>p, <1>d, <2>1, <2>2 DEF Pull, FaderTyped
  <2>6. ProducerTyped'
    BY <1>p, <1>d, <2>1, <2>2 DEF Pull, ProducerTyped
  <2>7. ConsumerTyped'
    <3>1. /\ pulling' = "pulled" /\ hushing' = FALSE /\ splicesSeen' = asked
          /\ UNCHANGED <<left, seen, level, read, silent, leading>>
      BY <1>d DEF Pull
    <3>2. QED
      BY <1>p, <2>1, <2>2, <3>1 DEF ConsumerTyped, AsksTyped
  <2>8. RenderingAhead'
    BY <1>p, <1>d, <2>1, <2>2 DEF Pull, RenderingAhead, ProducerTyped
  <2>9. QED
    BY <2>3, <2>4, <2>5, <2>6, <2>7, <2>8 DEF TypeInv, TypeOK
<1>e. CASE PassOver
  <2> DEFINE stale == Least(Stale(pending), Len(ring))
  <2>1. stale \in Nat /\ stale <= Len(ring)
    BY <1>q, StaleType, LeastType
  <2>2. ring' = SubSeq(ring, stale + 1, Len(ring)) /\ read' = read + stale
    BY <1>q, <1>e DEF PassOver
  <2>3. ring' \in Seq(Frame)
    BY <1>q, <2>1, <2>2, TailOfRing
  <2>4. read' \in Nat
    BY <1>q, <2>1, <2>2
  <2>5. FramesTyped'
    BY <1>p, <1>e, <2>3, <2>4, NoneType DEF PassOver, FramesTyped
  <2>6. AsksTyped'
    BY <1>p, <1>e DEF PassOver, AsksTyped
  <2>7. FaderTyped'
    BY <1>p, <1>e, <2>3, <2>4, NoneType DEF PassOver, FaderTyped
  <2>8. ProducerTyped'
    BY <1>p, <1>e, <2>3, <2>4, NoneType DEF PassOver, ProducerTyped
  <2>9. ConsumerTyped'
    BY <1>p, <1>e, <2>3, <2>4, NoneType DEF PassOver, ConsumerTyped
  <2>10. RenderingAhead'
    BY <1>p, <1>e, <2>3, <2>4, NoneType DEF PassOver, RenderingAhead, ProducerTyped
  <2>11. QED
    BY <2>5, <2>6, <2>7, <2>8, <2>9, <2>10 DEF TypeInv, TypeOK
<1>f. CASE Take
  <2> DEFINE frames == Least(FramesBeforeTheSplice, Len(ring))
  <2>1. PICK target \in {Silent, Whole} : TakeInto(target)
    BY <1>q, <1>f DEF Take
  <2>2. /\ FramesBeforeTheSplice \in Nat /\ FramesBeforeTheSplice <= left
    BY <1>q DEF FramesBeforeTheSplice, Spliced, Least, Less
  <2>3. frames \in Nat /\ frames <= Len(ring) /\ frames <= left
    BY <1>q, <2>2 DEF Least
  <2>4. /\ frames > 0
        /\ heard' = <<ring[frames]>>
        /\ ring' = SubSeq(ring, frames + 1, Len(ring))
        /\ read' = read + frames
        /\ left' = left - frames
        /\ level' = IF Fades THEN Toward(level, target, frames) ELSE level
        /\ inOrder' \in BOOLEAN
    BY <1>q, <2>1 DEF TakeInto
  <2>5. ring' \in Seq(Frame)
    BY <1>q, <2>3, <2>4, TailOfRing
  <2>6. heard' \in Seq(Frame)
    <3>1. ring[frames] \in Frame
      BY <1>q, <2>3, <2>4, ElementOfSeq
    <3>2. QED
      BY <1>q, <2>4, <3>1
  <2>7. level' \in 0..Whole
    <3>1. target \in 0..Whole
      BY <1>q, RingAssumption DEF Silent
    <3>2. QED
      BY <1>q, <2>3, <2>4, <3>1, TowardType
  <2>8. read' \in Nat /\ left' \in Nat
    <3>1. read' = read + frames /\ left' = left - frames
      BY <2>4
    <3>2. read \in Nat /\ left \in Nat
      BY <1>q
    <3>3. QED
      BY <2>3, <3>1, <3>2
  <2>9. FramesTyped'
    BY <1>p, <1>f, <2>1, <2>4, <2>5, <2>6, <2>7, <2>8 DEF Take, TakeInto, FramesTyped
  <2>10. AsksTyped'
    BY <1>p, <1>f, <2>1, <2>4, <2>5, <2>6, <2>7, <2>8 DEF Take, TakeInto, AsksTyped
  <2>11. FaderTyped'
    BY <1>p, <1>f, <2>1, <2>4, <2>5, <2>6, <2>7, <2>8 DEF Take, TakeInto, FaderTyped
  <2>12. ProducerTyped'
    BY <1>p, <1>f, <2>1, <2>4, <2>5, <2>6, <2>7, <2>8 DEF Take, TakeInto, ProducerTyped
  <2>13. ConsumerTyped'
    BY <1>p, <1>f, <2>1, <2>4, <2>5, <2>6, <2>7, <2>8 DEF Take, TakeInto, ConsumerTyped
  <2>14. RenderingAhead'
    BY <1>p, <1>f, <2>1, <2>4, <2>5, <2>6, <2>7, <2>8 DEF Take, TakeInto, RenderingAhead, ProducerTyped
  <2>15. QED
    BY <2>9, <2>10, <2>11, <2>12, <2>13, <2>14 DEF TypeInv, TypeOK
<1>1. CASE Finish
  <2>1. FramesTyped'
    BY <1>p, <1>1 DEF Finish, FramesTyped
  <2>2. AsksTyped'
    BY <1>p, <1>1 DEF Finish, AsksTyped
  <2>3. FaderTyped'
    BY <1>p, <1>1 DEF Finish, FaderTyped
  <2>4. ProducerTyped'
    BY <1>p, <1>1 DEF Finish, ProducerTyped
  <2>5. ConsumerTyped'
    BY <1>p, <1>1 DEF Finish, ConsumerTyped
  <2>6. RenderingAhead'
    BY <1>p, <1>1 DEF Finish, RenderingAhead, ProducerTyped
  <2>7. QED
    BY <2>1, <2>2, <2>3, <2>4, <2>5, <2>6 DEF TypeInv, TypeOK
<1>2. CASE DiscardBuffered
  <2>1. FramesTyped'
    BY <1>p, <1>2, NoneType DEF DiscardBuffered, FramesTyped
  <2>2. AsksTyped'
    BY <1>p, <1>2, NoneType DEF DiscardBuffered, AsksTyped
  <2>3. FaderTyped'
    BY <1>p, <1>2, NoneType DEF DiscardBuffered, FaderTyped
  <2>4. ProducerTyped'
    BY <1>p, <1>2, NoneType DEF DiscardBuffered, ProducerTyped
  <2>5. ConsumerTyped'
    BY <1>p, <1>2, NoneType DEF DiscardBuffered, ConsumerTyped
  <2>6. RenderingAhead'
    BY <1>p, <1>2, NoneType DEF DiscardBuffered, RenderingAhead, ProducerTyped
  <2>7. QED
    BY <2>1, <2>2, <2>3, <2>4, <2>5, <2>6 DEF TypeInv, TypeOK
<1>3. CASE BeginSplice
  <2>1. FramesTyped'
    BY <1>p, <1>3, SplicePointType DEF BeginSplice, Spliced, FramesTyped
  <2>2. AsksTyped'
    BY <1>p, <1>3, SplicePointType DEF BeginSplice, Spliced, AsksTyped, ProducerTyped
  <2>3. FaderTyped'
    BY <1>p, <1>3, SplicePointType DEF BeginSplice, Spliced, FaderTyped
  <2>4. ProducerTyped'
    BY <1>p, <1>3, SplicePointType DEF BeginSplice, Spliced, AsksTyped, ProducerTyped
  <2>5. ConsumerTyped'
    BY <1>p, <1>3, SplicePointType DEF BeginSplice, Spliced, ConsumerTyped
  <2>6. RenderingAhead'
    BY <1>p, <1>3, SplicePointType DEF BeginSplice, Spliced, RenderingAhead, ProducerTyped
  <2>7. QED
    BY <2>1, <2>2, <2>3, <2>4, <2>5, <2>6 DEF TypeInv, TypeOK
<1>4. CASE Splice
  <2>1. FramesTyped'
    BY <1>p, <1>4, StaleType DEF Splice, Spliced, FramesTyped
  <2>2. AsksTyped'
    BY <1>p, <1>4, StaleType DEF Splice, Spliced, AsksTyped, ProducerTyped
  <2>3. FaderTyped'
    BY <1>p, <1>4, StaleType DEF Splice, Spliced, FaderTyped
  <2>4. ProducerTyped'
    BY <1>p, <1>4, StaleType DEF Splice, Spliced, ProducerTyped
  <2>5. ConsumerTyped'
    BY <1>p, <1>4, StaleType DEF Splice, Spliced, ConsumerTyped
  <2>6. RenderingAhead'
    BY <1>p, <1>4, StaleType DEF Splice, Spliced, RenderingAhead, ProducerTyped
  <2>7. QED
    BY <2>1, <2>2, <2>3, <2>4, <2>5, <2>6 DEF TypeInv, TypeOK
<1>5. CASE Pause
  <2>1. FramesTyped'
    BY <1>p, <1>5, RingAssumption DEF Pause, FramesTyped
  <2>2. AsksTyped'
    BY <1>p, <1>5, RingAssumption DEF Pause, AsksTyped
  <2>3. FaderTyped'
    BY <1>p, <1>5, RingAssumption DEF Pause, FaderTyped
  <2>4. ProducerTyped'
    <3>1. /\ playing' = FALSE /\ fadesAsked' = fadesAsked + 1
          /\ UNCHANGED <<producing, written, splicing, splicedAway>>
      BY <1>5 DEF Pause
    <3>2. playing' \in BOOLEAN
      BY <3>1
    <3>3. fadesAsked' \in Nat
      BY <1>p, <3>1 DEF ProducerTyped
    <3>4. QED
      BY <1>p, <3>1, <3>2, <3>3, Zenon DEF ProducerTyped
  <2>5. ConsumerTyped'
    BY <1>p, <1>5, RingAssumption DEF Pause, ConsumerTyped
  <2>6. RenderingAhead'
    BY <1>p, <1>5, RingAssumption DEF Pause, RenderingAhead, ProducerTyped
  <2>7. QED
    BY <2>1, <2>2, <2>3, <2>4, <2>5, <2>6 DEF TypeInv, TypeOK
<1>6. CASE FadeTowardsSleep
  <2>1. FramesTyped'
    BY <1>p, <1>6 DEF FadeTowardsSleep, FramesTyped
  <2>2. AsksTyped'
    BY <1>p, <1>6 DEF FadeTowardsSleep, AsksTyped
  <2>3. FaderTyped'
    BY <1>p, <1>6 DEF FadeTowardsSleep, FaderTyped
  <2>4. ProducerTyped'
    BY <1>p, <1>6 DEF FadeTowardsSleep, ProducerTyped
  <2>5. ConsumerTyped'
    BY <1>p, <1>6 DEF FadeTowardsSleep, ConsumerTyped
  <2>6. RenderingAhead'
    BY <1>p, <1>6 DEF FadeTowardsSleep, RenderingAhead, ProducerTyped
  <2>7. QED
    BY <2>1, <2>2, <2>3, <2>4, <2>5, <2>6 DEF TypeInv, TypeOK
<1>7. CASE StandDown
  <2>1. FramesTyped'
    BY <1>p, <1>7 DEF StandDown, FramesTyped
  <2>2. AsksTyped'
    BY <1>p, <1>7 DEF StandDown, AsksTyped
  <2>3. FaderTyped'
    BY <1>p, <1>7 DEF StandDown, FaderTyped
  <2>4. ProducerTyped'
    BY <1>p, <1>7 DEF StandDown, ProducerTyped
  <2>5. ConsumerTyped'
    BY <1>p, <1>7 DEF StandDown, ConsumerTyped
  <2>6. RenderingAhead'
    BY <1>p, <1>7 DEF StandDown, RenderingAhead, ProducerTyped
  <2>7. QED
    BY <2>1, <2>2, <2>3, <2>4, <2>5, <2>6 DEF TypeInv, TypeOK
<1>8. CASE FadeIn
  <2>1. FramesTyped'
    BY <1>p, <1>8 DEF FadeIn, FramesTyped
  <2>2. AsksTyped'
    BY <1>p, <1>8 DEF FadeIn, AsksTyped
  <2>3. FaderTyped'
    BY <1>p, <1>8 DEF FadeIn, FaderTyped
  <2>4. ProducerTyped'
    BY <1>p, <1>8 DEF FadeIn, ProducerTyped
  <2>5. ConsumerTyped'
    BY <1>p, <1>8 DEF FadeIn, ConsumerTyped
  <2>6. RenderingAhead'
    BY <1>p, <1>8 DEF FadeIn, RenderingAhead, ProducerTyped
  <2>7. QED
    BY <2>1, <2>2, <2>3, <2>4, <2>5, <2>6 DEF TypeInv, TypeOK
<1>9. CASE FadedIn
  <2>1. FramesTyped'
    BY <1>p, <1>9, RingAssumption DEF FadedIn, FramesTyped
  <2>2. AsksTyped'
    BY <1>p, <1>9, RingAssumption DEF FadedIn, AsksTyped
  <2>3. FaderTyped'
    BY <1>p, <1>9, RingAssumption DEF FadedIn, FaderTyped
  <2>4. ProducerTyped'
    BY <1>p, <1>9, RingAssumption DEF FadedIn, ProducerTyped
  <2>5. ConsumerTyped'
    BY <1>p, <1>9, RingAssumption DEF FadedIn, ConsumerTyped
  <2>6. RenderingAhead'
    BY <1>p, <1>9, RingAssumption DEF FadedIn, RenderingAhead, ProducerTyped
  <2>7. QED
    BY <2>1, <2>2, <2>3, <2>4, <2>5, <2>6 DEF TypeInv, TypeOK
<1>10. CASE FadeBeforeTheDiscard
  <2>1. FramesTyped'
    BY <1>p, <1>10, ToTakeType DEF FadeBeforeTheDiscard, FramesTyped
  <2>2. AsksTyped'
    BY <1>p, <1>10, ToTakeType DEF FadeBeforeTheDiscard, AsksTyped
  <2>3. FaderTyped'
    BY <1>p, <1>10, ToTakeType DEF FadeBeforeTheDiscard, FaderTyped
  <2>4. ProducerTyped'
    BY <1>p, <1>10, ToTakeType DEF FadeBeforeTheDiscard, ProducerTyped
  <2>5. ConsumerTyped'
    BY <1>p, <1>10, ToTakeType DEF FadeBeforeTheDiscard, ConsumerTyped
  <2>6. RenderingAhead'
    BY <1>p, <1>10, ToTakeType DEF FadeBeforeTheDiscard, RenderingAhead, ProducerTyped
  <2>7. QED
    BY <2>1, <2>2, <2>3, <2>4, <2>5, <2>6 DEF TypeInv, TypeOK
<1>11. CASE NothingToFade
  <2>1. FramesTyped'
    BY <1>p, <1>11 DEF NothingToFade, FramesTyped
  <2>2. AsksTyped'
    BY <1>p, <1>11 DEF NothingToFade, AsksTyped
  <2>3. FaderTyped'
    BY <1>p, <1>11 DEF NothingToFade, FaderTyped
  <2>4. ProducerTyped'
    BY <1>p, <1>11 DEF NothingToFade, ProducerTyped
  <2>5. ConsumerTyped'
    BY <1>p, <1>11 DEF NothingToFade, ConsumerTyped
  <2>6. RenderingAhead'
    BY <1>p, <1>11 DEF NothingToFade, RenderingAhead, ProducerTyped
  <2>7. QED
    BY <2>1, <2>2, <2>3, <2>4, <2>5, <2>6 DEF TypeInv, TypeOK
<1>12. CASE Faded
  <2>1. FramesTyped'
    BY <1>p, <1>12 DEF Faded, FramesTyped
  <2>2. AsksTyped'
    BY <1>p, <1>12 DEF Faded, AsksTyped
  <2>3. FaderTyped'
    BY <1>p, <1>12 DEF Faded, FaderTyped
  <2>4. ProducerTyped'
    BY <1>p, <1>12 DEF Faded, ProducerTyped
  <2>5. ConsumerTyped'
    BY <1>p, <1>12 DEF Faded, ConsumerTyped
  <2>6. RenderingAhead'
    BY <1>p, <1>12 DEF Faded, RenderingAhead, ProducerTyped
  <2>7. QED
    BY <2>1, <2>2, <2>3, <2>4, <2>5, <2>6 DEF TypeInv, TypeOK
<1>13. CASE NothingToDiscard
  <2>1. FramesTyped'
    BY <1>p, <1>13 DEF NothingToDiscard, FramesTyped
  <2>2. AsksTyped'
    BY <1>p, <1>13 DEF NothingToDiscard, AsksTyped
  <2>3. FaderTyped'
    BY <1>p, <1>13 DEF NothingToDiscard, FaderTyped
  <2>4. ProducerTyped'
    BY <1>p, <1>13 DEF NothingToDiscard, ProducerTyped
  <2>5. ConsumerTyped'
    BY <1>p, <1>13 DEF NothingToDiscard, ConsumerTyped
  <2>6. RenderingAhead'
    BY <1>p, <1>13 DEF NothingToDiscard, RenderingAhead, ProducerTyped
  <2>7. QED
    BY <2>1, <2>2, <2>3, <2>4, <2>5, <2>6 DEF TypeInv, TypeOK
<1>14. CASE Drain
  <2>1. FramesTyped'
    BY <1>p, <1>14, RingAssumption, NoneType DEF Drain, Silent, FramesTyped
  <2>2. AsksTyped'
    BY <1>p, <1>14, RingAssumption, NoneType DEF Drain, Silent, AsksTyped
  <2>3. FaderTyped'
    BY <1>p, <1>14, RingAssumption, NoneType DEF Drain, Silent, FaderTyped
  <2>4. ProducerTyped'
    BY <1>p, <1>14, RingAssumption, NoneType DEF Drain, Silent, ProducerTyped
  <2>5. ConsumerTyped'
    BY <1>p, <1>14, RingAssumption, NoneType DEF Drain, Silent, AsksTyped, FaderTyped, ConsumerTyped
  <2>6. RenderingAhead'
    BY <1>p, <1>14, RingAssumption, NoneType DEF Drain, Silent, RenderingAhead, ProducerTyped
  <2>7. QED
    BY <2>1, <2>2, <2>3, <2>4, <2>5, <2>6 DEF TypeInv, TypeOK
<1>15. CASE AnswerTheDiscard
  <2>1. FramesTyped'
    BY <1>p, <1>15 DEF AnswerTheDiscard, FramesTyped
  <2>2. AsksTyped'
    BY <1>p, <1>15 DEF AnswerTheDiscard, AsksTyped, ConsumerTyped
  <2>3. FaderTyped'
    BY <1>p, <1>15 DEF AnswerTheDiscard, FaderTyped
  <2>4. ProducerTyped'
    BY <1>p, <1>15 DEF AnswerTheDiscard, ProducerTyped
  <2>5. ConsumerTyped'
    BY <1>p, <1>15 DEF AnswerTheDiscard, ConsumerTyped
  <2>6. RenderingAhead'
    BY <1>p, <1>15 DEF AnswerTheDiscard, RenderingAhead, ProducerTyped
  <2>7. QED
    BY <2>1, <2>2, <2>3, <2>4, <2>5, <2>6 DEF TypeInv, TypeOK
<1>16. CASE Held
  <2>1. FramesTyped'
    BY <1>p, <1>16 DEF Held, FramesTyped
  <2>2. AsksTyped'
    BY <1>p, <1>16 DEF Held, AsksTyped
  <2>3. FaderTyped'
    BY <1>p, <1>16 DEF Held, FaderTyped
  <2>4. ProducerTyped'
    BY <1>p, <1>16 DEF Held, ProducerTyped
  <2>5. ConsumerTyped'
    <3>1. leading' \in Nat
      BY <1>16, <1>p DEF Held, FaderTyped
    <3>2. pulling' \in {"refilling", "leading_in"}
      BY <1>16 DEF Held
    <3>3. UNCHANGED <<wanted, left, hushing, seen, splicesSeen, pending, level, read, silent>>
      BY <1>16 DEF Held
    <3>4. QED
      BY <1>p, <3>1, <3>2, <3>3 DEF ConsumerTyped
  <2>6. RenderingAhead'
    BY <1>p, <1>16 DEF Held, RenderingAhead, ProducerTyped
  <2>7. QED
    BY <2>1, <2>2, <2>3, <2>4, <2>5, <2>6 DEF TypeInv, TypeOK
<1>17. CASE LeadIn
  <2>1. FramesTyped'
    BY <1>p, <1>17, LessType DEF LeadIn, FramesTyped
  <2>2. AsksTyped'
    BY <1>p, <1>17, LessType DEF LeadIn, AsksTyped
  <2>3. FaderTyped'
    BY <1>p, <1>17, LessType DEF LeadIn, FaderTyped, ConsumerTyped
  <2>4. ProducerTyped'
    BY <1>p, <1>17, LessType DEF LeadIn, ProducerTyped
  <2>5. ConsumerTyped'
    BY <1>p, <1>17, LessType DEF LeadIn, ConsumerTyped
  <2>6. RenderingAhead'
    BY <1>p, <1>17, LessType DEF LeadIn, RenderingAhead, ProducerTyped
  <2>7. QED
    BY <2>1, <2>2, <2>3, <2>4, <2>5, <2>6 DEF TypeInv, TypeOK
<1>18. CASE Refilling
  <2>1. FramesTyped'
    BY <1>p, <1>18 DEF Refilling, FramesTyped
  <2>2. AsksTyped'
    BY <1>p, <1>18 DEF Refilling, AsksTyped
  <2>3. FaderTyped'
    BY <1>p, <1>18 DEF Refilling, FaderTyped
  <2>4. ProducerTyped'
    BY <1>p, <1>18 DEF Refilling, ProducerTyped
  <2>5. ConsumerTyped'
    BY <1>p, <1>18 DEF Refilling, ConsumerTyped
  <2>6. RenderingAhead'
    BY <1>p, <1>18 DEF Refilling, RenderingAhead, ProducerTyped
  <2>7. QED
    BY <2>1, <2>2, <2>3, <2>4, <2>5, <2>6 DEF TypeInv, TypeOK
<1>19. CASE Hush
  <2>1. FramesTyped'
    BY <1>p, <1>19 DEF Hush, FramesTyped
  <2>2. AsksTyped'
    BY <1>p, <1>19 DEF Hush, AsksTyped
  <2>3. FaderTyped'
    BY <1>p, <1>19 DEF Hush, FaderTyped
  <2>4. ProducerTyped'
    BY <1>p, <1>19 DEF Hush, ProducerTyped
  <2>5. ConsumerTyped'
    BY <1>p, <1>19 DEF Hush, ConsumerTyped
  <2>6. RenderingAhead'
    BY <1>p, <1>19 DEF Hush, RenderingAhead, ProducerTyped
  <2>7. QED
    BY <2>1, <2>2, <2>3, <2>4, <2>5, <2>6 DEF TypeInv, TypeOK
<1>20. CASE Sound
  <2>1. FramesTyped'
    BY <1>p, <1>20, ToTakeType DEF Sound, FramesTyped
  <2>2. AsksTyped'
    BY <1>p, <1>20, ToTakeType DEF Sound, AsksTyped
  <2>3. FaderTyped'
    BY <1>p, <1>20, ToTakeType DEF Sound, FaderTyped
  <2>4. ProducerTyped'
    BY <1>p, <1>20, ToTakeType DEF Sound, ProducerTyped
  <2>5. ConsumerTyped'
    <3>1. left' \in Nat
      BY <1>20, <1>p, ToTakeType DEF Sound
    <3>2. hushing' = silenced /\ hushing' \in BOOLEAN /\ pulling' = "taking"
      BY <1>20, <1>p DEF Sound, FaderTyped
    <3>3. UNCHANGED <<wanted, seen, splicesSeen, pending, level, read, silent, leading>>
      BY <1>20 DEF Sound
    <3>4. QED
      BY <1>p, <3>1, <3>2, <3>3 DEF ConsumerTyped
  <2>6. RenderingAhead'
    BY <1>p, <1>20, ToTakeType DEF Sound, RenderingAhead, ProducerTyped
  <2>7. QED
    BY <2>1, <2>2, <2>3, <2>4, <2>5, <2>6 DEF TypeInv, TypeOK
<1>21. CASE TakenWhole
  <2>1. FramesTyped'
    BY <1>p, <1>21 DEF TakenWhole, FramesTyped
  <2>2. AsksTyped'
    BY <1>p, <1>21 DEF TakenWhole, AsksTyped
  <2>3. FaderTyped'
    BY <1>p, <1>21 DEF TakenWhole, FaderTyped
  <2>4. ProducerTyped'
    BY <1>p, <1>21 DEF TakenWhole, ProducerTyped
  <2>5. ConsumerTyped'
    BY <1>p, <1>21 DEF TakenWhole, ConsumerTyped
  <2>6. RenderingAhead'
    BY <1>p, <1>21 DEF TakenWhole, RenderingAhead, ProducerTyped
  <2>7. QED
    BY <2>1, <2>2, <2>3, <2>4, <2>5, <2>6 DEF TypeInv, TypeOK
<1>22. CASE GoQuiet
  <2>1. FramesTyped'
    BY <1>p, <1>22 DEF GoQuiet, FramesTyped
  <2>2. AsksTyped'
    BY <1>p, <1>22 DEF GoQuiet, AsksTyped
  <2>3. FaderTyped'
    BY <1>p, <1>22 DEF GoQuiet, FaderTyped
  <2>4. ProducerTyped'
    BY <1>p, <1>22 DEF GoQuiet, ProducerTyped
  <2>5. ConsumerTyped'
    BY <1>p, <1>22 DEF GoQuiet, ConsumerTyped
  <2>6. RenderingAhead'
    BY <1>p, <1>22 DEF GoQuiet, RenderingAhead, ProducerTyped
  <2>7. QED
    BY <2>1, <2>2, <2>3, <2>4, <2>5, <2>6 DEF TypeInv, TypeOK
<1>23. CASE EndPull
  <2>1. FramesTyped'
    BY <1>p, <1>23 DEF EndPull, FramesTyped
  <2>2. AsksTyped'
    BY <1>p, <1>23 DEF EndPull, AsksTyped
  <2>3. FaderTyped'
    BY <1>p, <1>23 DEF EndPull, FaderTyped
  <2>4. ProducerTyped'
    BY <1>p, <1>23 DEF EndPull, ProducerTyped
  <2>5. ConsumerTyped'
    BY <1>p, <1>23 DEF EndPull, ConsumerTyped
  <2>6. RenderingAhead'
    BY <1>p, <1>23 DEF EndPull, RenderingAhead, ProducerTyped
  <2>7. QED
    BY <2>1, <2>2, <2>3, <2>4, <2>5, <2>6 DEF TypeInv, TypeOK
<1>g. CASE TellItIsPassed
  <2>1. FramesTyped'
    BY <1>p, <1>g DEF TellItIsPassed, FramesTyped
  <2>2. AsksTyped'
    BY <1>p, <1>g DEF TellItIsPassed, AsksTyped, ConsumerTyped
  <2>3. FaderTyped'
    BY <1>p, <1>g DEF TellItIsPassed, FaderTyped
  <2>4. ProducerTyped'
    BY <1>p, <1>g DEF TellItIsPassed, ProducerTyped
  <2>5. ConsumerTyped'
    BY <1>p, <1>g DEF TellItIsPassed, ConsumerTyped
  <2>6. RenderingAhead'
    BY <1>p, <1>g DEF TellItIsPassed, RenderingAhead, ProducerTyped
  <2>7. QED
    BY <2>1, <2>2, <2>3, <2>4, <2>5, <2>6 DEF TypeInv, TypeOK
<1>h. CASE AskWhetherAudible
  <2>1. FramesTyped'
    BY <1>p, <1>h DEF AskWhetherAudible, FramesTyped
  <2>2. AsksTyped'
    BY <1>p, <1>h DEF AskWhetherAudible, AsksTyped
  <2>3. FaderTyped'
    BY <1>p, <1>h DEF AskWhetherAudible, FaderTyped
  <2>4. ProducerTyped'
    BY <1>p, <1>h DEF AskWhetherAudible, ProducerTyped
  <2>5. ConsumerTyped'
    BY <1>p, <1>h DEF AskWhetherAudible, ConsumerTyped
  <2>6. RenderingAhead'
    BY <1>p, <1>h DEF AskWhetherAudible, RenderingAhead, ProducerTyped
  <2>7. QED
    BY <2>1, <2>2, <2>3, <2>4, <2>5, <2>6 DEF TypeInv, TypeOK
<1>j. CASE NotAudible
  <2>1. FramesTyped'
    BY <1>p, <1>j DEF NotAudible, FramesTyped
  <2>2. AsksTyped'
    BY <1>p, <1>j DEF NotAudible, AsksTyped
  <2>3. FaderTyped'
    BY <1>p, <1>j DEF NotAudible, FaderTyped
  <2>4. ProducerTyped'
    BY <1>p, <1>j DEF NotAudible, ProducerTyped
  <2>5. ConsumerTyped'
    BY <1>p, <1>j DEF NotAudible, ConsumerTyped
  <2>6. RenderingAhead'
    BY <1>p, <1>j DEF NotAudible, RenderingAhead, ProducerTyped
  <2>7. QED
    BY <2>1, <2>2, <2>3, <2>4, <2>5, <2>6 DEF TypeInv, TypeOK
<1>24. CASE UNCHANGED vars
  BY <1>p, <1>24 DEF vars, TypeInv, TypeOK, RenderingAhead, FramesTyped, AsksTyped, FaderTyped, ProducerTyped, ConsumerTyped
<1>25. QED
  BY <1>b, <1>c, <1>d, <1>e, <1>f, <1>g, <1>h, <1>j,
     <1>1, <1>2, <1>3, <1>4, <1>5, <1>6, <1>7, <1>8, <1>9, <1>10, <1>11, <1>12, <1>13, <1>14, <1>15, <1>16, <1>17, <1>18, <1>19, <1>20, <1>21, <1>22, <1>23, <1>24
     DEF Next, Producer, Callback

\* The queue, the atomics and each thread's own counts keep their types, whatever the
\* interleaving: no count goes negative and the level stays between silent and whole.
THEOREM TypeCorrect == Spec => []TypeOK
<1>1. Init => TypeInv
  BY TypeInvInit
<1>2. TypeInv /\ [Next]_vars => TypeInv'
  BY TypeInvStep
<1>3. TypeInv => TypeOK
  BY DEF TypeInv
<1>4. QED
  BY <1>1, <1>2, <1>3, PTL DEF Spec

-----------------------------------------------------------------------------
(* Seeks.                                                                  *)

Draining == pulling \in {"drained", "faded_and_drained"}

\* Between the drain and the answer the ring is empty and nothing writes to it; at every
\* other time the seek last seen is the one last answered, and every frame in the ring
\* was rendered after it.
SeekInv ==
  /\ applied <= requested
  /\ IF Draining THEN seen = requested /\ IsDiscarding /\ ring = <<>> /\ read = 0
                 ELSE seen = applied
  /\ IsDiscarding => written = 0 /\ producing # "rendering"
  /\ \A i \in 1..Len(ring) : ring[i].epoch = applied
  /\ ReadAgrees

IInv == TypeInv /\ SeekInv

LEMMA IInvInit == Init => IInv
<1> SUFFICES ASSUME Init PROVE IInv
  OBVIOUS
<1>1. TypeInv
  BY TypeInvInit
<1>2. SeekInv
  BY EmptySeq DEF Init, SeekInv, Draining, IsDiscarding, ReadAgrees
<1>3. QED
  BY <1>1, <1>2 DEF IInv

\* Most steps touch neither the frames nor the counts a seek is about.
LEMMA SeekUntouched ==
  ASSUME SeekInv, UNCHANGED <<ring, requested, applied, seen, read, written>>,
         Draining' <=> Draining,
         producing' = "rendering" => producing = "rendering" \/ ~IsDiscarding
  PROVE  SeekInv'
  BY DEF SeekInv, Draining, IsDiscarding, ReadAgrees

\* What is read and what is held make what was written, as frames are added behind.
LEMMA WrittenBehind ==
  ASSUME NEW before \in Nat, NEW held \in Nat, NEW frames \in Nat
  PROVE  before + (held + frames) = (before + held) + frames
OBVIOUS

\* Frames the engine adds at the back were rendered after the last seek.
LEMMA SeekWritten ==
  ASSUME TypeInv, SeekInv, ~IsDiscarding, UNCHANGED <<requested, applied, seen, read, pulling>>,
         NEW first \in Nat, NEW frames \in Nat,
         ring' = ring \o Rendered(first, frames),
         written' = written + frames
  PROVE  SeekInv'
<1> DEFINE new == Rendered(first, frames)
<1>1. /\ new \in Seq(Frame) /\ Len(new) = frames
      /\ \A i \in 1..frames : new[i].epoch = requested
  BY RenderedType DEF TypeInv, TypeOK, FramesTyped, AsksTyped, FaderTyped, ProducerTyped, ConsumerTyped
<1>2. ring \in Seq(Frame) /\ Len(ring) \in Nat
  BY LenProperties DEF TypeInv, TypeOK, FramesTyped, AsksTyped, FaderTyped, ProducerTyped, ConsumerTyped
<1>3. /\ Len(ring') = Len(ring) + frames
      /\ \A i \in 1..Len(ring) + frames :
           ring'[i] = IF i <= Len(ring) THEN ring[i] ELSE new[i - Len(ring)]
  BY <1>1, <1>2, ConcatProperties
<1>4. applied = requested
  BY DEF SeekInv, IsDiscarding, TypeInv, TypeOK, FramesTyped, AsksTyped, FaderTyped, ProducerTyped, ConsumerTyped
<1>5. \A i \in 1..Len(ring') : ring'[i].epoch = applied'
  <2> SUFFICES ASSUME NEW i \in 1..Len(ring') PROVE ring'[i].epoch = applied
    OBVIOUS
  <2>1. CASE i <= Len(ring)
    BY <1>2, <1>3, <2>1 DEF SeekInv
  <2>2. CASE ~(i <= Len(ring))
    <3>1. i - Len(ring) \in 1..frames
      BY <1>2, <1>3, <2>2
    <3>2. QED
      BY <1>1, <1>3, <1>4, <2>2, <3>1
  <2>3. QED
    BY <2>1, <2>2
<1>6. ReadAgrees'
  <2>1. read \in Nat /\ written \in Nat /\ read + Len(ring) = written
    BY DEF SeekInv, ReadAgrees, TypeInv, TypeOK, FramesTyped, AsksTyped, FaderTyped, ProducerTyped, ConsumerTyped
  <2>2. read' + Len(ring') = written'
    <3>1. read + (Len(ring) + frames) = (read + Len(ring)) + frames
      BY <1>2, <2>1, WrittenBehind, Zenon
    <3>2. read' = read /\ Len(ring') = Len(ring) + frames /\ written' = written + frames
      BY <1>3
    <3>3. QED
      BY <2>1, <3>1, <3>2, Zenon
  <2>3. QED
    BY <2>2 DEF ReadAgrees
<1>7. ~Draining /\ ~Draining' /\ ~IsDiscarding'
  BY DEF SeekInv, Draining, IsDiscarding
<1>8. QED
  BY <1>5, <1>6, <1>7 DEF SeekInv, Draining, IsDiscarding

\* What is read and what is held make what was written, whichever side frames are on.
LEMMA ReadAsTaken ==
  ASSUME NEW before \in Nat, NEW held \in Nat, NEW frames \in Nat
  PROVE  (before + frames) + (held - frames) = before + held
OBVIOUS

\* Frames the callback takes or passes over leave the front of the ring.
LEMMA SeekTaken ==
  ASSUME TypeInv, SeekInv, UNCHANGED <<requested, applied, seen, written, producing>>,
         ~Draining, ~Draining', NEW frames \in Nat, frames <= Len(ring),
         ring' = SubSeq(ring, frames + 1, Len(ring)),
         read' = read + frames
  PROVE  SeekInv'
<1>1. ring \in Seq(Frame) /\ Len(ring) \in Nat
  BY LenProperties DEF TypeInv, TypeOK, FramesTyped, AsksTyped, FaderTyped, ProducerTyped, ConsumerTyped
<1>2. /\ Len(ring') = Len(ring) - frames
      /\ \A i \in 1..Len(ring') : ring'[i] = ring[frames + i]
  BY <1>1, TailOfRing
<1>3. \A i \in 1..Len(ring') : ring'[i].epoch = applied'
  <2> SUFFICES ASSUME NEW i \in 1..Len(ring') PROVE ring'[i].epoch = applied
    OBVIOUS
  <2>1. frames + i \in 1..Len(ring)
    BY <1>1, <1>2
  <2>2. QED
    BY <1>2, <2>1 DEF SeekInv
<1>4. read \in Nat /\ written \in Nat
  BY DEF TypeInv, TypeOK, FramesTyped, AsksTyped, FaderTyped, ProducerTyped, ConsumerTyped
<1>5. IsDiscarding' <=> IsDiscarding
  BY DEF IsDiscarding
<1>6. ASSUME ~IsDiscarding PROVE read' + Len(ring') = written'
  <2>1. read + Len(ring) = written
    BY <1>6 DEF SeekInv, ReadAgrees
  <2>2. (read + frames) + (Len(ring) - frames) = read + Len(ring)
    BY <1>1, <1>4, ReadAsTaken, Zenon
  <2>3. QED
    BY <1>2, <2>1, <2>2, Zenon
<1>7. ReadAgrees'
  BY <1>5, <1>6 DEF ReadAgrees
<1>8. QED
  BY <1>3, <1>5, <1>7 DEF SeekInv

\* What a pull takes is in the ring.
LEMMA TakenFromTheRing ==
  ASSUME TypeInv, NEW target, TakeInto(target)
  PROVE  \E frames \in 1..Len(ring) :
           /\ heard' = <<ring[frames]>>
           /\ ring' = SubSeq(ring, frames + 1, Len(ring))
           /\ read' = read + frames
<1> DEFINE frames == Least(FramesBeforeTheSplice, Len(ring))
<1>1. Len(ring) \in Nat
  BY LenProperties DEF TypeInv, TypeOK, FramesTyped, AsksTyped, FaderTyped, ProducerTyped, ConsumerTyped
<1>2. FramesBeforeTheSplice \in Nat
  BY DEF FramesBeforeTheSplice, Spliced, Least, Less, TypeInv, TypeOK, FramesTyped, AsksTyped, FaderTyped, ProducerTyped, ConsumerTyped
<1>3. frames \in Nat /\ frames <= Len(ring)
  BY <1>1, <1>2 DEF Least
<1>4. /\ frames > 0 /\ heard' = <<ring[frames]>>
      /\ ring' = SubSeq(ring, frames + 1, Len(ring)) /\ read' = read + frames
  BY DEF TakeInto
<1>5. frames \in 1..Len(ring)
  BY <1>1, <1>3, <1>4
<1>6. QED
  BY <1>4, <1>5

LEMMA IInvStep == IInv /\ [Next]_vars => IInv'
<1> SUFFICES ASSUME IInv, [Next]_vars PROVE SeekInv'
  BY TypeInvStep DEF IInv
<1>i. TypeInv /\ SeekInv /\ TypeOK
  BY DEF IInv, TypeInv
<1> USE DEF shared, atomics, requests, asks, graph, fader, producer, consumer, history, Turn
<1>1. CASE BeginSplice
  BY <1>i, <1>1, SeekUntouched DEF BeginSplice, Draining
<1>2. CASE Splice
  BY <1>i, <1>2, SeekUntouched DEF Splice, Draining
<1>3. CASE Pause
  BY <1>i, <1>3, SeekUntouched DEF Pause, Draining
<1>4. CASE FadeTowardsSleep
  BY <1>i, <1>4, SeekUntouched DEF FadeTowardsSleep, Draining
<1>5. CASE StandDown
  BY <1>i, <1>5, SeekUntouched DEF StandDown, Draining
<1>6. CASE FadeIn
  BY <1>i, <1>6, SeekUntouched DEF FadeIn, Draining
<1>7. CASE FadedIn
  BY <1>i, <1>7, SeekUntouched DEF FadedIn, Draining
<1>8. CASE Finish
  BY <1>i, <1>8, SeekUntouched DEF Finish, Draining
<1>9. CASE Pull
  BY <1>i, <1>9, SeekUntouched DEF Pull, Draining
<1>10. CASE FadeBeforeTheDiscard
  BY <1>i, <1>10, SeekUntouched DEF FadeBeforeTheDiscard, Draining
<1>11. CASE NothingToFade
  BY <1>i, <1>11, SeekUntouched DEF NothingToFade, Draining
<1>12. CASE Faded
  BY <1>i, <1>12, SeekUntouched DEF Faded, Draining
<1>13. CASE NothingToDiscard
  BY <1>i, <1>13, SeekUntouched DEF NothingToDiscard, Draining
<1>14. CASE Held
  BY <1>i, <1>14, SeekUntouched DEF Held, Draining
<1>15. CASE LeadIn
  BY <1>i, <1>15, SeekUntouched DEF LeadIn, Draining
<1>16. CASE Refilling
  BY <1>i, <1>16, SeekUntouched DEF Refilling, Draining
<1>17. CASE Hush
  BY <1>i, <1>17, SeekUntouched DEF Hush, Draining
<1>18. CASE Sound
  BY <1>i, <1>18, SeekUntouched DEF Sound, Draining
<1>19. CASE TakenWhole
  BY <1>i, <1>19, SeekUntouched DEF TakenWhole, Draining
<1>20. CASE GoQuiet
  BY <1>i, <1>20, SeekUntouched DEF GoQuiet, Draining
<1>21. CASE EndPull
  BY <1>i, <1>21, SeekUntouched DEF EndPull, Draining
<1>a. CASE Write
  <2>1. PICK frames \in 1..FreeFrames :
          /\ ring' = ring \o Rendered(HeardAs(written), frames)
          /\ written' = written + frames
    BY <1>a DEF Write
  <2>2. frames \in Nat
    BY <1>i, <2>1, FreeFramesType
  <2>3. HeardAs(written) \in Nat
    BY <1>i, HeardAsType DEF TypeOK, FramesTyped, AsksTyped, FaderTyped, ProducerTyped, ConsumerTyped
  <2>4. /\ ~IsDiscarding
        /\ UNCHANGED <<requested, applied, seen, read, pulling>>
    BY <1>a DEF Write
  <2>5. QED
    BY <1>i, <2>1, <2>2, <2>3, <2>4, SeekWritten
<1>b. CASE WriteSpliced
  <2> DEFINE first == HeardAs(splicing.at) + written - splicing.to
  <2>1. PICK frames \in 1..Less(Stale(splicing), written - splicing.to) :
          /\ ring' = ring \o Rendered(first, frames)
          /\ written' = written + frames
    BY <1>b DEF WriteSpliced
  <2>2. splicing.at \in Nat /\ splicing.to \in Nat /\ written - splicing.to \in Nat
    BY <1>b, <1>i DEF WriteSpliced, Spliced, TypeInv, TypeOK, FramesTyped, AsksTyped, FaderTyped, ProducerTyped, ConsumerTyped, RenderingAhead
  <2>3. Stale(splicing) \in Nat
    BY <1>i, StaleType DEF TypeOK, FramesTyped, AsksTyped, FaderTyped, ProducerTyped, ConsumerTyped
  <2>4. Less(Stale(splicing), written - splicing.to) \in Nat
    BY <2>2, <2>3, LessType
  <2>5. frames \in Nat
    BY <2>4
  <2>6. HeardAs(splicing.at) \in Nat
    BY <1>i, <2>2, HeardAsType
  <2>7. first \in Nat
    BY <2>2, <2>6
  <2>8. /\ ~IsDiscarding
        /\ UNCHANGED <<requested, applied, seen, read, pulling>>
    BY <1>b, <1>i DEF WriteSpliced, SeekInv
  <2>9. QED
    BY <1>i, <2>1, <2>5, <2>7, <2>8, SeekWritten
<1>c. CASE DiscardBuffered
  BY <1>c, <1>i DEF DiscardBuffered, SeekInv, Draining, IsDiscarding, ReadAgrees, TypeOK, FramesTyped, AsksTyped, FaderTyped, ProducerTyped, ConsumerTyped
<1>d. CASE PassOver
  <2> DEFINE stale == Least(Stale(pending), Len(ring))
  <2>1. stale \in Nat /\ stale <= Len(ring)
    BY <1>i, LenProperties, StaleType, LeastType DEF TypeOK, FramesTyped, AsksTyped, FaderTyped, ProducerTyped, ConsumerTyped
  <2>2. /\ ring' = SubSeq(ring, stale + 1, Len(ring)) /\ read' = read + stale
        /\ ~Draining /\ ~Draining'
        /\ UNCHANGED <<requested, applied, seen, written, producing>>
    BY <1>d DEF PassOver, Draining
  <2>3. QED
    BY <1>i, <2>1, <2>2, SeekTaken
<1>e. CASE Take
  <2>1. PICK target \in {Silent, Whole} : TakeInto(target)
    BY <1>e DEF Take
  <2>2. PICK frames \in 1..Len(ring) :
          ring' = SubSeq(ring, frames + 1, Len(ring)) /\ read' = read + frames
    BY <1>i, <2>1, TakenFromTheRing
  <2>3. /\ ~Draining /\ ~Draining'
        /\ UNCHANGED <<requested, applied, seen, written, producing>>
    BY <1>e, <2>1 DEF Take, TakeInto, Draining
  <2>4. frames \in Nat /\ frames <= Len(ring)
    BY <1>i, <2>2, LenProperties DEF TypeOK, FramesTyped, AsksTyped, FaderTyped, ProducerTyped, ConsumerTyped
  <2>5. QED
    BY <1>i, <2>2, <2>3, <2>4, SeekTaken
<1>f. CASE Drain
  <2>1. ~Draining /\ Draining'
    BY <1>f DEF Drain, Draining
  <2>2. seen = applied /\ requested # seen /\ IsDiscarding
    BY <1>f, <1>i, <2>1 DEF Drain, SeekInv, IsDiscarding, TypeOK, FramesTyped, AsksTyped, FaderTyped, ProducerTyped, ConsumerTyped
  <2>3. /\ seen' = requested /\ ring' = <<>> /\ read' = 0
        /\ UNCHANGED <<requested, applied, written, producing>>
    BY <1>f DEF Drain
  <2>4. QED
    BY <1>i, <2>1, <2>2, <2>3 DEF SeekInv, IsDiscarding, ReadAgrees
<1>g. CASE AnswerTheDiscard
  <2>1. Draining /\ ~Draining'
    BY <1>g DEF AnswerTheDiscard, Draining
  <2>2. seen = requested /\ ring = <<>> /\ read = 0 /\ written = 0
    BY <1>i, <2>1 DEF SeekInv
  <2>3. applied' = seen /\ UNCHANGED <<requested, seen, ring, read, written, producing>>
    BY <1>g DEF AnswerTheDiscard
  <2>4. ~IsDiscarding'
    BY <1>i, <2>2, <2>3 DEF IsDiscarding, TypeOK, FramesTyped, AsksTyped, FaderTyped, ProducerTyped, ConsumerTyped
  <2>5. QED
    BY <1>i, <2>1, <2>2, <2>3, <2>4, EmptySeq DEF SeekInv, ReadAgrees, TypeOK, FramesTyped, AsksTyped, FaderTyped, ProducerTyped, ConsumerTyped
<1>24. CASE AskWhetherAudible
  BY <1>i, <1>24, SeekUntouched DEF AskWhetherAudible, Draining
<1>25. CASE NotAudible
  BY <1>i, <1>25, SeekUntouched DEF NotAudible, Draining
<1>26. CASE TellItIsPassed
  BY <1>i, <1>26, SeekUntouched DEF TellItIsPassed, Draining
<1>22. CASE UNCHANGED vars
  BY <1>i, <1>22, SeekUntouched DEF vars, Draining
<1>23. QED
  BY <1>a, <1>b, <1>c, <1>d, <1>e, <1>f, <1>g,
     <1>1, <1>2, <1>3, <1>4, <1>5, <1>6, <1>7, <1>8, <1>9, <1>10, <1>11, <1>12, <1>13, <1>14,
     <1>15, <1>16, <1>17, <1>18, <1>19, <1>20, <1>21, <1>22, <1>24, <1>25, <1>26
     DEF Next, Producer, Callback

LEMMA IInvHolds == Spec => []IInv
  BY IInvInit, IInvStep, PTL DEF Spec

\* With no seek waiting, the engine's reckoning of what the graph has read is right at
\* every step of both threads: what is left in the ring is what was written and not read.
THEOREM ReadAgreesAlways == Spec => []ReadAgrees
<1>1. IInv => ReadAgrees
  BY DEF IInv, SeekInv
<1>2. QED
  BY <1>1, IInvHolds, PTL

\* Whatever the interleaving, a frame handed to the device was rendered after the last
\* seek that was answered.
THEOREM StaleIsNeverHeard == Spec => StaleNeverHeard
<1>1. IInv /\ [Next]_vars => [heard' # heard => heard'[1].epoch = applied]_vars
  <2> SUFFICES ASSUME IInv, Next, heard' # heard PROVE heard'[1].epoch = applied
    BY DEF vars, history
  <2>1. PICK target \in {Silent, Whole} : TakeInto(target)
    <3>1. Take
      BY DEF Next, Producer, Callback, history, shared, producer, consumer,
             Write, Finish, DiscardBuffered, BeginSplice, WriteSpliced, Splice, Pause,
             AskWhetherAudible, NotAudible, FadeTowardsSleep, StandDown, FadeIn, FadedIn, Pull,
             FadeBeforeTheDiscard, NothingToFade, PassOver, TellItIsPassed, Faded, NothingToDiscard, Drain, AnswerTheDiscard,
             Held, LeadIn, Refilling, Hush, Sound, TakenWhole, GoQuiet, EndPull
    <3>2. QED
      BY <3>1 DEF Take
  <2>2. PICK frames \in 1..Len(ring) : heard' = <<ring[frames]>>
    BY <2>1, TakenFromTheRing DEF IInv
  <2>3. QED
    BY <2>2 DEF IInv, SeekInv
<1>2. QED
  BY <1>1, IInvHolds, PTL DEF Spec, StaleNeverHeard

=============================================================================
