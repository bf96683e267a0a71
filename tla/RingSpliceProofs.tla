--------------------------- MODULE RingSpliceProofs ---------------------------
(***************************************************************************)
(* What Ring promises of splices, of the room they take, of the level the  *)
(* engine reads and of the order frames are heard in, for every capacity,  *)
(* fade, pull and bound: on top of the seeks of RingProofs.                *)
(***************************************************************************)
EXTENDS RingProofs

-----------------------------------------------------------------------------
(* The level.                                                              *)

\* The steps of a pull between its start and the moment silenced is loaded: hushing is
\* this pull's only after that.
NotYetHushing == {"pulled", "discarding", "drained", "held", "refilling", "sounding"}

\* What the engine reads of the level is the level, between pulls; within a pull it may
\* lag behind a fade, but only one that hushes or one into a seek not yet answered.
LevelInv ==
  /\ pulling = "idle" /\ whole => level = Whole
  /\ pulling \in NotYetHushing => ~hushing
  /\ pulling \in {"fading", "fading_past"} => IsDiscarding
  /\ whole /\ ~IsDiscarding => level = Whole \/ hushing

LEMMA LevelInvInit == Init => LevelInv
  BY DEF Init, LevelInv, NotYetHushing

\* A fade towards what the level is already leaves it there.
LEMMA TowardWhole ==
  ASSUME over \in Overs, NEW frames \in Nat
  PROVE  Toward(Whole, Whole, frames) = Whole
<1>1. Step \in Nat /\ Whole \in Nat
  BY StepType, RingAssumption
<1>2. frames * Step \in Nat
  BY <1>1, Z3
<1>3. QED
  BY <1>1, <1>2 DEF Toward, Least, Greatest, Less

\* A step of the engine leaves the level and the pull alone, and answers no seek.
LEMMA LevelOfTheEngine ==
  ASSUME TypeInv, LevelInv,
         UNCHANGED <<pulling, whole, level, hushing, applied>>,
         requested' = requested \/ requested' = requested + 1
  PROVE  LevelInv'
  BY DEF LevelInv, IsDiscarding, TypeInv, TypeOK, AsksTyped

\* A step of the callback that neither fades, stores whole nor answers a seek.
LEMMA LevelOfTheCallback ==
  ASSUME LevelInv, UNCHANGED <<whole, level, hushing, applied, requested>>,
         pulling' # "idle", pulling' \in {"fading", "fading_past"} => IsDiscarding,
         pulling' \in NotYetHushing => pulling \in NotYetHushing
  PROVE  LevelInv'
  BY DEF LevelInv, IsDiscarding

\* Frames left to take are a count, and so is what is taken of them.
LEMMA FramesTaken ==
  ASSUME TypeInv
  PROVE  Least(FramesBeforeTheSplice, Len(ring)) \in Nat
<1>1. left \in Nat /\ read \in Nat /\ pending \in Spliced /\ Len(ring) \in Nat
  BY LenProperties DEF TypeInv, TypeOK, FramesTyped, ConsumerTyped
<1>2. FramesBeforeTheSplice \in Nat
  BY <1>1 DEF FramesBeforeTheSplice, Spliced, Least, Less
<1>3. QED
  BY <1>1, <1>2, LeastType

LEMMA LevelInvStep == IInv /\ LevelInv /\ [Next]_vars => LevelInv'
<1> SUFFICES ASSUME IInv, LevelInv, [Next]_vars PROVE LevelInv'
  OBVIOUS
<1>i. TypeInv /\ SeekInv /\ TypeOK /\ requested \in Nat /\ applied \in Nat /\ seen \in Nat
  BY DEF IInv, TypeInv, TypeOK, AsksTyped, ConsumerTyped
<1>s. ~Draining => (requested # seen <=> IsDiscarding)
  BY <1>i DEF SeekInv, IsDiscarding
<1> USE DEF shared, atomics, requests, asks, graph, fader, producer, consumer, history, Turn
<1>1. CASE Write
  BY <1>i, <1>1, LevelOfTheEngine DEF Write
<1>2. CASE Finish
  BY <1>i, <1>2, LevelOfTheEngine DEF Finish
<1>3. CASE DiscardBuffered
  BY <1>i, <1>3, LevelOfTheEngine DEF DiscardBuffered
<1>4. CASE BeginSplice
  BY <1>i, <1>4, LevelOfTheEngine DEF BeginSplice
<1>5. CASE WriteSpliced
  BY <1>i, <1>5, LevelOfTheEngine DEF WriteSpliced
<1>6. CASE Splice
  BY <1>i, <1>6, LevelOfTheEngine DEF Splice
<1>7. CASE Pause
  BY <1>i, <1>7, LevelOfTheEngine DEF Pause
<1>8. CASE FadeTowardsSleep
  BY <1>i, <1>8, LevelOfTheEngine DEF FadeTowardsSleep
<1>9. CASE StandDown
  BY <1>i, <1>9, LevelOfTheEngine DEF StandDown
<1>10. CASE FadeIn
  BY <1>i, <1>10, LevelOfTheEngine DEF FadeIn
<1>11. CASE FadedIn
  BY <1>i, <1>11, LevelOfTheEngine DEF FadedIn
<1>12. CASE Pull
  <2>1. /\ pulling = "idle" /\ pulling' = "pulled" /\ ~hushing'
        /\ UNCHANGED <<whole, level, requested, applied>>
    BY <1>12 DEF Pull
  <2>2. QED
    BY <2>1 DEF LevelInv, IsDiscarding
<1>13. CASE FadeBeforeTheDiscard
  <2>1. IsDiscarding
    BY <1>13, <1>s DEF FadeBeforeTheDiscard, Draining
  <2>2. QED
    BY <1>13, <2>1, LevelOfTheCallback DEF FadeBeforeTheDiscard, NotYetHushing
<1>14. CASE NothingToFade
  BY <1>14, LevelOfTheCallback DEF NothingToFade, NotYetHushing
<1>15. CASE PassOver
  <2>1. pulling' = "fading_past" => IsDiscarding
    BY <1>15 DEF PassOver, LevelInv
  <2>2. QED
    BY <1>15, <2>1, LevelOfTheCallback DEF PassOver, NotYetHushing
<1>16. CASE Take
  <2> DEFINE frames == Least(FramesBeforeTheSplice, Len(ring))
  <2>1. UNCHANGED <<pulling, whole, hushing, applied, requested>>
    BY <1>16 DEF Take, TakeInto
  <2>2. pulling # "idle"
    BY <1>16 DEF Take
  <2>3. ASSUME whole, ~IsDiscarding, ~hushing PROVE level' = Whole
    <3>1. level = Whole
      BY <2>3 DEF LevelInv
    <3>2. TakeInto(Whole)
      BY <1>16, <2>3 DEF Take, LevelInv
    <3>3. level' = IF Fades THEN Toward(level, Whole, frames) ELSE level
      BY <3>2 DEF TakeInto
    <3>4. Toward(Whole, Whole, frames) = Whole
      BY <1>i, FramesTaken, TowardWhole DEF TypeOK, FaderTyped
    <3>5. QED
      BY <3>1, <3>3, <3>4
  <2>4. QED
    BY <2>1, <2>2, <2>3 DEF LevelInv, IsDiscarding
<1>17. CASE Faded
  BY <1>17, LevelOfTheCallback DEF Faded, NotYetHushing
<1>18. CASE NothingToDiscard
  BY <1>18, LevelOfTheCallback DEF NothingToDiscard, NotYetHushing
<1>19. CASE Drain
  <2>1. IsDiscarding
    BY <1>19, <1>s DEF Drain, Draining
  <2>2. /\ pulling \in {"discarding", "faded"} /\ pulling' \in {"drained", "faded_and_drained"}
        /\ pulling' = "drained" => pulling = "discarding"
        /\ UNCHANGED <<whole, hushing, requested, applied>>
    BY <1>19 DEF Drain
  <2>3. QED
    BY <2>1, <2>2 DEF LevelInv, IsDiscarding, NotYetHushing
<1>20. CASE AnswerTheDiscard
  <2>1. /\ pulling' \in {"held", "ending"} /\ ~whole' /\ hushing' = hushing
        /\ pulling' = "held" => pulling = "drained"
    BY <1>20 DEF AnswerTheDiscard
  <2>2. QED
    BY <2>1 DEF LevelInv, NotYetHushing
<1>21. CASE Held
  BY <1>21, LevelOfTheCallback DEF Held, NotYetHushing
<1>22. CASE LeadIn
  BY <1>22, LevelOfTheCallback DEF LeadIn, NotYetHushing
<1>23. CASE Refilling
  BY <1>23, LevelOfTheCallback DEF Refilling, NotYetHushing
<1>24. CASE Hush
  <2>1. /\ pulling' = "quiet" /\ hushing' /\ UNCHANGED <<whole, level, requested, applied>>
    BY <1>24 DEF Hush
  <2>2. QED
    BY <2>1 DEF LevelInv, NotYetHushing
<1>25. CASE Sound
  <2>1. /\ pulling = "sounding" /\ pulling' = "taking"
        /\ UNCHANGED <<whole, level, requested, applied>>
    BY <1>25 DEF Sound
  <2>2. QED
    BY <2>1 DEF LevelInv, NotYetHushing, IsDiscarding
<1>26. CASE TakenWhole
  BY <1>26, LevelOfTheCallback DEF TakenWhole, NotYetHushing
<1>27. CASE GoQuiet
  BY <1>27, LevelOfTheCallback DEF GoQuiet, NotYetHushing
<1>28. CASE EndPull
  <2>1. pulling' = "idle" /\ whole' = (level >= Whole) /\ level' = level
    BY <1>28 DEF EndPull
  <2>2. level \in 0..Whole /\ Whole \in Nat
    BY <1>i, RingAssumption DEF TypeOK, ConsumerTyped
  <2>3. ASSUME whole' PROVE level' = Whole
    <3>1. level >= Whole
      BY <2>1, <2>3, Zenon
    <3>2. QED
      BY <2>1, <2>2, <3>1
  <2>4. QED
    BY <2>1, <2>3 DEF LevelInv, NotYetHushing
<1>31. CASE TellItIsPassed
  <2>1. pulling' = "fading" => IsDiscarding
    BY <1>31 DEF TellItIsPassed, LevelInv
  <2>2. QED
    BY <1>31, <2>1, LevelOfTheCallback DEF TellItIsPassed, NotYetHushing
<1>32. CASE AskWhetherAudible
  BY <1>i, <1>32, LevelOfTheEngine DEF AskWhetherAudible
<1>33. CASE NotAudible
  BY <1>i, <1>33, LevelOfTheEngine DEF NotAudible
<1>29. CASE UNCHANGED vars
  BY <1>i, <1>29, LevelOfTheEngine DEF vars
<1>30. QED
  BY <1>1, <1>2, <1>3, <1>4, <1>5, <1>6, <1>7, <1>8, <1>9, <1>10, <1>11, <1>12, <1>13, <1>14,
     <1>15, <1>16, <1>17, <1>18, <1>19, <1>20, <1>21, <1>22, <1>23, <1>24, <1>25, <1>26,
     <1>27, <1>28, <1>29, <1>31, <1>32, <1>33
     DEF Next, Producer, Callback

\* What the engine has loaded whole, it finds whole when it goes on to fade it: nothing but
\* a seek it has not heard answered or a fade out in its last pull takes the level away.
AskedInv ==
  producing = "asking" /\ ~amid =>
    /\ ~IsDiscarding /\ ~silenced /\ ~hushing
    /\ level = Whole

LEMMA AskedInvInit == Init => AskedInv
  BY DEF Init, AskedInv

\* A step that leaves the level alone and begins neither a seek nor a fade out.
LEMMA AskedUntouched ==
  ASSUME AskedInv,
         UNCHANGED <<requested, applied, silenced, amid, level>>,
         producing' = "asking" => producing = "asking",
         hushing' => hushing \/ silenced
  PROVE  AskedInv'
  BY DEF AskedInv, IsDiscarding

LEMMA AskedInvStep == IInv /\ LevelInv /\ AskedInv /\ [Next]_vars => AskedInv'
<1> SUFFICES ASSUME IInv, LevelInv, AskedInv, [Next]_vars PROVE AskedInv'
  OBVIOUS
<1>i. /\ TypeInv /\ SeekInv /\ TypeOK /\ requested \in Nat /\ applied \in Nat /\ seen \in Nat
      /\ silenced \in BOOLEAN /\ hushing \in BOOLEAN
  BY DEF IInv, TypeInv, TypeOK, AsksTyped, FaderTyped, ConsumerTyped
<1>s. ~Draining => (requested # seen <=> IsDiscarding)
  BY <1>i DEF SeekInv, IsDiscarding
<1> USE DEF shared, atomics, requests, asks, graph, fader, producer, consumer, history, Turn
<1>1. CASE Write
  BY <1>1, AskedUntouched DEF Write
<1>2. CASE Finish
  BY <1>2, AskedUntouched DEF Finish
<1>3. CASE DiscardBuffered
  BY <1>3 DEF DiscardBuffered, AskedInv
<1>4. CASE BeginSplice
  BY <1>4 DEF BeginSplice, AskedInv
<1>5. CASE WriteSpliced
  BY <1>5, AskedUntouched DEF WriteSpliced
<1>6. CASE Splice
  BY <1>6 DEF Splice, AskedInv
<1>7. CASE Pause
  BY <1>7 DEF Pause, AskedInv
<1>8. CASE FadeTowardsSleep
  BY <1>8 DEF FadeTowardsSleep, AskedInv
<1>9. CASE StandDown
  BY <1>9, AskedUntouched DEF StandDown
<1>10. CASE FadeIn
  BY <1>10 DEF FadeIn, AskedInv
<1>11. CASE FadedIn
  BY <1>11 DEF FadedIn, AskedInv
<1>12. CASE Pull
  BY <1>12, AskedUntouched DEF Pull
<1>13. CASE FadeBeforeTheDiscard
  BY <1>13, AskedUntouched DEF FadeBeforeTheDiscard
<1>14. CASE NothingToFade
  BY <1>14, AskedUntouched DEF NothingToFade
<1>15. CASE PassOver
  BY <1>15, AskedUntouched DEF PassOver
<1>16. CASE Take
  <2> DEFINE frames == Least(FramesBeforeTheSplice, Len(ring))
  <2>1. UNCHANGED <<pulling, hushing, applied, requested, silenced, amid, producing>>
    BY <1>16 DEF Take, TakeInto
  <2>2. ASSUME producing = "asking", ~amid PROVE level' = Whole
    <3>1. level = Whole /\ ~hushing /\ ~IsDiscarding
      BY <2>2 DEF AskedInv
    <3>2. TakeInto(Whole)
      BY <1>16, <3>1 DEF Take, LevelInv
    <3>3. level' = IF Fades THEN Toward(level, Whole, frames) ELSE level
      BY <3>2 DEF TakeInto
    <3>4. Toward(Whole, Whole, frames) = Whole
      BY <1>i, FramesTaken, TowardWhole DEF TypeOK, FaderTyped
    <3>5. QED
      BY <3>1, <3>3, <3>4
  <2>3. QED
    BY <2>1, <2>2 DEF AskedInv, IsDiscarding
<1>17. CASE Faded
  BY <1>17, AskedUntouched DEF Faded
<1>18. CASE NothingToDiscard
  BY <1>18, AskedUntouched DEF NothingToDiscard
<1>19. CASE Drain
  <2>1. IsDiscarding
    BY <1>19, <1>s DEF Drain, Draining
  <2>2. UNCHANGED <<requested, applied, amid, producing>>
    BY <1>19 DEF Drain
  <2>3. QED
    BY <2>1, <2>2 DEF AskedInv, IsDiscarding
<1>20. CASE AnswerTheDiscard
  <2>1. IsDiscarding
    BY <1>i, <1>20 DEF AnswerTheDiscard, SeekInv, Draining
  <2>2. UNCHANGED <<amid, producing>>
    BY <1>20 DEF AnswerTheDiscard
  <2>3. QED
    BY <2>1, <2>2 DEF AskedInv
<1>21. CASE Held
  BY <1>21, AskedUntouched DEF Held
<1>22. CASE LeadIn
  BY <1>22, AskedUntouched DEF LeadIn
<1>23. CASE Refilling
  BY <1>23, AskedUntouched DEF Refilling
<1>24. CASE Hush
  BY <1>24, AskedUntouched DEF Hush
<1>25. CASE Sound
  BY <1>25, AskedUntouched DEF Sound
<1>26. CASE TakenWhole
  BY <1>26, AskedUntouched DEF TakenWhole
<1>27. CASE GoQuiet
  BY <1>27, AskedUntouched DEF GoQuiet
<1>28. CASE EndPull
  BY <1>28, AskedUntouched DEF EndPull
<1>31. CASE TellItIsPassed
  BY <1>31, AskedUntouched DEF TellItIsPassed
<1>32. CASE AskWhetherAudible
  <2>1. /\ whole /\ ~silenced /\ amid' = (IsDiscarding \/ hushing)
        /\ UNCHANGED <<requested, applied, silenced, hushing, level>>
    BY <1>32 DEF AskWhetherAudible
  <2>2. ~IsDiscarding /\ ~hushing => level = Whole
    BY <2>1 DEF LevelInv
  <2>3. QED
    BY <2>1, <2>2 DEF AskedInv, IsDiscarding
<1>33. CASE NotAudible
  BY <1>33 DEF NotAudible, AskedInv
<1>29. CASE UNCHANGED vars
  BY <1>29, AskedUntouched DEF vars
<1>30. QED
  BY <1>1, <1>2, <1>3, <1>4, <1>5, <1>6, <1>7, <1>8, <1>9, <1>10, <1>11, <1>12, <1>13, <1>14,
     <1>15, <1>16, <1>17, <1>18, <1>19, <1>20, <1>21, <1>22, <1>23, <1>24, <1>25, <1>26,
     <1>27, <1>28, <1>29, <1>31, <1>32, <1>33
     DEF Next, Producer, Callback

\* A ring whose whole level the engine has loaded, with no seek waiting and no fade out under
\* way at that load, is still at its whole level when the engine acts on it, whatever the
\* callback does between is_audible's two loads and after them.
THEOREM AudibleMeansWholeAlways == Spec => []AudibleMeansWhole
<1>1. Init => IInv /\ LevelInv /\ AskedInv
  BY IInvInit, LevelInvInit, AskedInvInit
<1>2. IInv /\ LevelInv /\ AskedInv /\ [Next]_vars => (IInv /\ LevelInv /\ AskedInv)'
  BY IInvStep, LevelInvStep, AskedInvStep
<1>3. AskedInv => AudibleMeansWhole
  BY DEF AskedInv, AudibleMeansWhole
<1>4. QED
  BY <1>1, <1>2, <1>3, PTL DEF Spec

-----------------------------------------------------------------------------
(* What each thread knows of a splice.                                     *)

\* A splice was published and not passed over yet; the callback has picked it up.
Awaited == taken # asked
Noticed == splicesSeen = asked

\* The stale run is still in the ring, ahead of what was read.
StillAhead == Awaited /\ ~InPassing

\* With no seek waiting, at most one splice is under way: rendered by the engine, then
\* published as the engine rendered it, then picked up as it was published, then passed
\* over; what stands in for the stale run is written before it is published.
SpliceInv ==
  /\ Draining \/ InPassing => pending = None
  /\ Draining => Noticed
  /\ splicing # None => splicing.at < splicing.to
  /\ producing = "rendering" => ~Awaited /\ splicing # None
  /\ ~IsDiscarding /\ InPassing => Awaited /\ Noticed
  /\ ~IsDiscarding /\ ~Awaited => pending = None /\ Noticed
  /\ ~IsDiscarding /\ Awaited =>
       /\ splicing # None
       /\ spliceAt = splicing.at /\ spliceTo = splicing.to
       /\ splicing.to + Stale(splicing) <= written
       /\ pending = IF Noticed /\ ~InPassing THEN splicing ELSE None

\* What a write adds fits, and lands behind what is held; so does what is rendered again.
LEMMA FramesWritten ==
  ASSUME TypeInv, Write
  PROVE  \E frames \in Nat : /\ frames <= FreeFrames
                             /\ Len(ring') = Len(ring) + frames
                             /\ written' = written + frames
<1>1. PICK frames \in 1..FreeFrames :
        /\ ring' = ring \o Rendered(HeardAs(written), frames)
        /\ written' = written + frames
  BY DEF Write
<1>2. TypeOK /\ requested \in Nat /\ written \in Nat /\ ring \in Seq(Frame) /\ Len(ring) \in Nat
  BY LenProperties DEF TypeInv, TypeOK, FramesTyped, AsksTyped, ProducerTyped
<1>3. frames \in Nat /\ frames <= FreeFrames /\ HeardAs(written) \in Nat
  BY <1>1, <1>2, FreeFramesType, HeardAsType
<1>4. Len(ring') = Len(ring) + frames
  <2> DEFINE new == Rendered(HeardAs(written), frames)
  <2>1. new \in Seq(Frame) /\ Len(new) = frames
    BY <1>2, <1>3, RenderedType
  <2>2. Len(ring \o new) = Len(ring) + Len(new)
    BY <1>2, <2>1, ConcatProperties
  <2>3. ring' = ring \o new
    BY <1>1
  <2> HIDE DEF new
  <2>4. QED
    BY <2>1, <2>2, <2>3
<1>5. QED
  BY <1>1, <1>3, <1>4

LEMMA FramesRenderedAgain ==
  ASSUME TypeInv, WriteSpliced
  PROVE  \E frames \in Nat : /\ written + frames <= splicing.to + Stale(splicing)
                             /\ Len(ring') = Len(ring) + frames
                             /\ written' = written + frames
<1> DEFINE first == HeardAs(splicing.at) + written - splicing.to
           rest  == Less(Stale(splicing), written - splicing.to)
<1>1. PICK frames \in 1..rest :
        /\ ring' = ring \o Rendered(first, frames)
        /\ written' = written + frames
  BY DEF WriteSpliced
<1>2. /\ TypeOK /\ requested \in Nat /\ written \in Nat
      /\ ring \in Seq(Frame) /\ Len(ring) \in Nat
      /\ splicing.at \in Nat /\ splicing.to \in Nat /\ written - splicing.to \in Nat
      /\ Stale(splicing) \in Nat
  BY LenProperties, StaleType
     DEF WriteSpliced, TypeInv, TypeOK, FramesTyped, AsksTyped, ProducerTyped,
         RenderingAhead, Spliced
<1>3. rest \in Nat
  BY <1>2, LessType
<1>4. frames \in Nat /\ frames >= 1 /\ frames <= rest
  BY <1>3
<1>5. written + frames <= splicing.to + Stale(splicing)
  BY <1>2, <1>4 DEF Less
<1>6. HeardAs(splicing.at) \in Nat
  BY <1>2, HeardAsType
<1>7. first \in Nat
  BY <1>2, <1>6
<1>8. Len(ring') = Len(ring) + frames
  <2> DEFINE new == Rendered(first, frames)
  <2>1. new \in Seq(Frame) /\ Len(new) = frames
    BY <1>2, <1>4, <1>7, RenderedType
  <2>2. Len(ring \o new) = Len(ring) + Len(new)
    BY <1>2, <2>1, ConcatProperties
  <2>3. ring' = ring \o new
    BY <1>1
  <2> HIDE DEF new
  <2>4. QED
    BY <2>1, <2>2, <2>3
<1>9. QED
  BY <1>1, <1>4, <1>5, <1>8

LEMMA SpliceInvInit == Init => SpliceInv
  BY DEF Init, SpliceInv, Draining, InPassing, IsDiscarding, Awaited, Noticed

\* Most steps touch nothing a splice is about; what is written only grows.
LEMMA SpliceUntouched ==
  ASSUME TypeInv, SpliceInv,
         UNCHANGED <<requested, applied, asked, spliceAt, spliceTo, taken, splicing,
                     splicesSeen, pending>>,
         NEW frames \in Nat, written' = written + frames,
         Draining' => Draining, InPassing' <=> InPassing,
         producing' = "rendering" => producing = "rendering"
  PROVE  SpliceInv'
<1>1. splicing.to \in Nat /\ Stale(splicing) \in Nat /\ written \in Nat
  BY StaleType DEF TypeInv, TypeOK, ProducerTyped, Spliced
<1>2. Stale(splicing)' = Stale(splicing)
  BY DEF Stale, Less
<1>3. splicing.to + Stale(splicing) <= written => splicing.to + Stale(splicing) <= written'
  BY <1>1
<1>4. /\ (IsDiscarding' <=> IsDiscarding) /\ (Awaited' <=> Awaited) /\ (Noticed' <=> Noticed)
  BY DEF IsDiscarding, Awaited, Noticed
<1>5. QED
  BY <1>2, <1>3, <1>4 DEF SpliceInv

LEMMA SpliceInvStep == IInv /\ SpliceInv /\ [Next]_vars => SpliceInv'
<1> SUFFICES ASSUME IInv, SpliceInv, [Next]_vars PROVE SpliceInv'
  OBVIOUS
<1>i. /\ TypeInv /\ SeekInv /\ TypeOK
      /\ requested \in Nat /\ applied \in Nat /\ asked \in Nat /\ taken \in Nat
      /\ written \in Nat /\ written = written + 0 /\ splicing \in Spliced
      /\ splicing.at \in Nat /\ splicing.to \in Nat
  BY DEF IInv, TypeInv, TypeOK, AsksTyped, ProducerTyped, Spliced
<1>s. /\ Draining => IsDiscarding
      /\ IsDiscarding => producing # "rendering"
  BY <1>i DEF SeekInv
<1> USE DEF shared, atomics, requests, asks, graph, fader, producer, consumer, history, Turn
<1>1. CASE Write
  <2>1. PICK frames \in Nat : written' = written + frames
    BY <1>i, <1>1, FramesWritten
  <2>2. QED
    BY <1>i, <1>1, <2>1, SpliceUntouched DEF Write, Draining, InPassing
<1>2. CASE Finish
  BY <1>i, <1>2, SpliceUntouched DEF Finish, Draining, InPassing
<1>3. CASE DiscardBuffered
  <2>1. IsDiscarding' /\ ~Draining' /\ producing' # "rendering" /\ splicing' = None
    BY <1>i, <1>s, <1>3 DEF DiscardBuffered, SeekInv, IsDiscarding, Draining
  <2>2. InPassing' => pending' = None
    BY <1>3 DEF DiscardBuffered, SpliceInv, InPassing
  <2>3. QED
    BY <2>1, <2>2 DEF SpliceInv
<1>4. CASE BeginSplice
  <2>1. /\ ~IsDiscarding /\ ~IsSplicing /\ SplicePoint + Blended <= written
        /\ splicing' = [at |-> SplicePoint, to |-> written]
        /\ UNCHANGED <<requested, applied, asked, taken, splicesSeen, pending, pulling>>
    BY <1>4 DEF BeginSplice
  <2>2. splicing'.at < splicing'.to
    <3>1. SplicePoint \in Nat /\ Blended \in Nat /\ Blended >= 1
      BY <1>i, SplicePointType, RingAssumption
    <3>2. splicing'.at = SplicePoint /\ splicing'.to = written
      BY <2>1
    <3>3. QED
      BY <1>i, <2>1, <3>1, <3>2
  <2>3. splicing' # None
    BY <2>2 DEF None
  <2>4. ~Awaited
    BY <2>1 DEF SpliceInv, IsSplicing, Awaited
  <2>5. /\ ~IsDiscarding' /\ ~Draining' /\ ~InPassing' /\ ~Awaited'
        /\ pending' = None /\ Noticed'
    BY <1>s, <2>1, <2>4 DEF SpliceInv, IsDiscarding, Draining, InPassing, Awaited, Noticed
  <2>6. QED
    BY <2>2, <2>3, <2>5 DEF SpliceInv
<1>5. CASE WriteSpliced
  <2>1. PICK frames \in Nat : written' = written + frames
    BY <1>i, <1>5, FramesRenderedAgain
  <2>2. QED
    BY <1>i, <1>5, <2>1, SpliceUntouched DEF WriteSpliced, Draining, InPassing
<1>6. CASE Splice
  <2>1. /\ producing = "rendering" /\ producing' = "ready"
        /\ written - splicing.to = Stale(splicing)
        /\ spliceAt' = splicing.at /\ spliceTo' = splicing.to /\ asked' = asked + 1
        /\ UNCHANGED <<requested, applied, taken, splicesSeen, pending, splicing, written,
                       pulling>>
    BY <1>6 DEF Splice
  <2>2. /\ ~IsDiscarding /\ ~Draining /\ ~InPassing /\ splicing # None
        /\ taken = asked /\ splicesSeen = asked /\ pending = None
    BY <1>s, <2>1 DEF SpliceInv, Awaited, Noticed
  <2>3. Awaited' /\ ~Noticed' /\ ~Draining' /\ ~InPassing'
    BY <1>i, <2>1, <2>2 DEF Awaited, Noticed, Draining, InPassing
  <2>4. Stale(splicing)' = Stale(splicing) /\ Stale(splicing) \in Nat
    BY <1>i, <2>1, StaleType DEF Stale, Less
  <2>5. (splicing.to + Stale(splicing) <= written)'
    BY <1>i, <2>1, <2>4
  <2>6. QED
    BY <2>1, <2>2, <2>3, <2>5 DEF SpliceInv
<1>7. CASE Pause
  BY <1>i, <1>7, SpliceUntouched DEF Pause, Draining, InPassing
<1>8. CASE FadeTowardsSleep
  BY <1>i, <1>8, SpliceUntouched DEF FadeTowardsSleep, Draining, InPassing
<1>9. CASE StandDown
  BY <1>i, <1>9, SpliceUntouched DEF StandDown, Draining, InPassing
<1>10. CASE FadeIn
  BY <1>i, <1>10, SpliceUntouched DEF FadeIn, Draining, InPassing
<1>11. CASE FadedIn
  BY <1>i, <1>11, SpliceUntouched DEF FadedIn, Draining, InPassing
<1>12. CASE Pull
  <2>1. /\ ~Draining /\ ~Draining' /\ ~InPassing /\ ~InPassing'
        /\ splicesSeen' = asked
        /\ pending' = IF ~Noticed THEN [at |-> spliceAt, to |-> spliceTo] ELSE pending
        /\ UNCHANGED <<requested, applied, asked, spliceAt, spliceTo, taken, splicing,
                       written, producing>>
    BY <1>12 DEF Pull, Draining, InPassing, Noticed
  <2>2. Noticed' /\ (Awaited' <=> Awaited) /\ (IsDiscarding' <=> IsDiscarding)
    BY <2>1 DEF Noticed, Awaited, IsDiscarding
  <2>3. Stale(splicing)' = Stale(splicing)
    BY <2>1 DEF Stale, Less
  <2>4. ASSUME ~IsDiscarding, Awaited PROVE pending' = splicing
    <3>1. splicing = [at |-> splicing.at, to |-> splicing.to]
      BY <1>i DEF Spliced
    <3>2. QED
      BY <2>1, <2>4, <3>1 DEF SpliceInv
  <2>5. ASSUME ~IsDiscarding, ~Awaited PROVE pending' = None
    BY <2>1, <2>5 DEF SpliceInv
  <2>6. QED
    BY <2>1, <2>2, <2>3, <2>4, <2>5 DEF SpliceInv
<1>13. CASE FadeBeforeTheDiscard
  BY <1>i, <1>13, SpliceUntouched DEF FadeBeforeTheDiscard, Draining, InPassing
<1>14. CASE NothingToFade
  BY <1>i, <1>14, SpliceUntouched DEF NothingToFade, Draining, InPassing
<1>15. CASE PassOver
  <2>1. /\ pending # None /\ pending' = None
        /\ ~Draining /\ ~Draining' /\ ~InPassing /\ InPassing'
        /\ UNCHANGED <<requested, applied, asked, taken, spliceAt, spliceTo, splicing,
                       splicesSeen, producing, written>>
    BY <1>15 DEF PassOver, Draining, InPassing
  <2>2. /\ (IsDiscarding' <=> IsDiscarding) /\ (Awaited' <=> Awaited)
        /\ (Noticed' <=> Noticed) /\ Stale(splicing)' = Stale(splicing)
    BY <2>1 DEF IsDiscarding, Awaited, Noticed, Stale, Less
  <2>3. ~IsDiscarding => Awaited /\ Noticed
    BY <2>1 DEF SpliceInv
  <2>4. QED
    BY <2>1, <2>2, <2>3 DEF SpliceInv
<1>31. CASE TellItIsPassed
  <2>1. /\ InPassing /\ ~InPassing' /\ ~Draining' /\ taken' = splicesSeen
        /\ UNCHANGED <<requested, applied, asked, splicing, splicesSeen, pending, producing>>
    BY <1>31 DEF TellItIsPassed, Draining, InPassing
  <2>2. IsDiscarding' <=> IsDiscarding
    BY <2>1 DEF IsDiscarding
  <2>3. pending' = None
    BY <2>1 DEF SpliceInv
  <2>4. ASSUME ~IsDiscarding PROVE ~Awaited' /\ Noticed'
    <3>1. Noticed
      BY <2>1, <2>4 DEF SpliceInv
    <3>2. QED
      BY <2>1, <3>1 DEF Awaited, Noticed
  <2>5. ASSUME IsDiscarding PROVE producing' # "rendering"
    BY <1>s, <2>1, <2>5
  <2>6. QED
    BY <2>1, <2>2, <2>3, <2>4, <2>5 DEF SpliceInv
<1>32. CASE AskWhetherAudible
  BY <1>i, <1>32, SpliceUntouched DEF AskWhetherAudible, Draining, InPassing
<1>33. CASE NotAudible
  BY <1>i, <1>33, SpliceUntouched DEF NotAudible, Draining, InPassing
<1>16. CASE Take
  BY <1>i, <1>16, SpliceUntouched DEF Take, TakeInto, Draining, InPassing
<1>17. CASE Faded
  BY <1>i, <1>17, SpliceUntouched DEF Faded, Draining, InPassing
<1>18. CASE NothingToDiscard
  BY <1>i, <1>18, SpliceUntouched DEF NothingToDiscard, Draining, InPassing
<1>19. CASE Drain
  <2>1. IsDiscarding
    BY <1>i, <1>19 DEF Drain, SeekInv, IsDiscarding, Draining
  <2>2. /\ splicesSeen' = asked /\ pending' = None /\ ~InPassing'
        /\ UNCHANGED <<requested, applied, asked, splicing, producing>>
    BY <1>19 DEF Drain, InPassing
  <2>3. QED
    BY <1>s, <2>1, <2>2 DEF SpliceInv, IsDiscarding, Noticed
<1>20. CASE AnswerTheDiscard
  <2>1. /\ Draining /\ ~Draining' /\ ~InPassing' /\ taken' = splicesSeen
        /\ UNCHANGED <<asked, splicing, splicesSeen, pending, producing>>
    BY <1>20 DEF AnswerTheDiscard, Draining, InPassing
  <2>2. pending' = None /\ ~Awaited' /\ Noticed'
    BY <2>1 DEF SpliceInv, Awaited, Noticed
  <2>3. producing' # "rendering"
    BY <1>s, <2>1
  <2>4. QED
    BY <2>1, <2>2, <2>3 DEF SpliceInv
<1>21. CASE Held
  BY <1>i, <1>21, SpliceUntouched DEF Held, Draining, InPassing
<1>22. CASE LeadIn
  BY <1>i, <1>22, SpliceUntouched DEF LeadIn, Draining, InPassing
<1>23. CASE Refilling
  BY <1>i, <1>23, SpliceUntouched DEF Refilling, Draining, InPassing
<1>24. CASE Hush
  BY <1>i, <1>24, SpliceUntouched DEF Hush, Draining, InPassing
<1>25. CASE Sound
  BY <1>i, <1>25, SpliceUntouched DEF Sound, Draining, InPassing
<1>26. CASE TakenWhole
  BY <1>i, <1>26, SpliceUntouched DEF TakenWhole, Draining, InPassing
<1>27. CASE GoQuiet
  BY <1>i, <1>27, SpliceUntouched DEF GoQuiet, Draining, InPassing
<1>28. CASE EndPull
  BY <1>i, <1>28, SpliceUntouched DEF EndPull, Draining, InPassing
<1>29. CASE UNCHANGED vars
  BY <1>i, <1>29, SpliceUntouched DEF vars, Draining, InPassing
<1>30. QED
  BY <1>1, <1>2, <1>3, <1>4, <1>5, <1>6, <1>7, <1>8, <1>9, <1>10, <1>11, <1>12, <1>13, <1>14,
     <1>15, <1>16, <1>17, <1>18, <1>19, <1>20, <1>21, <1>22, <1>23, <1>24, <1>25, <1>26,
     <1>27, <1>28, <1>29, <1>31, <1>32, <1>33
     DEF Next, Producer, Callback

LEMMA SpliceInvHolds == Spec => [](IInv /\ SpliceInv)
  BY IInvInit, IInvStep, SpliceInvInit, SpliceInvStep, PTL DEF Spec

-----------------------------------------------------------------------------
(* The stale run is passed over before it is played out.                   *)

\* The steps of a pull that takes frames.
Taking == {"fading", "fading_past", "taking", "taking_past"}

\* What the callback may still take in this pull before it next asks for splices.
Rest ==
  IF pulling \in Taking THEN left
  ELSE IF pulling \in {"pulled", "discarding", "held", "refilling", "sounding"} THEN wanted
  ELSE 0

\* The splice under way, whoever knows of it: picked up, published or still rendered.
Under ==
  IF pending # None THEN pending
  ELSE IF ~Noticed THEN [at |-> spliceAt, to |-> spliceTo]
  ELSE IF producing = "rendering" THEN splicing ELSE None

\* What a pull may read before it has picked up the splice under way.
Unwarned == IF pending = None THEN Rest ELSE 0

\* Until the callback has picked the splice up, its end lies ahead of all this pull may
\* take; after that, ahead of what it has read.  Once the splice is published, what stands
\* in for the stale run is in the ring.
TimeInv ==
  /\ wanted = pulled
  /\ pulling \in Taking => left <= wanted
  /\ pending # None \/ InPassing => Noticed
  /\ Under # None =>
       /\ Under.at < Under.to
       /\ read + Unwarned <= Under.to
       /\ producing # "rendering" => Under.to + Stale(Under) <= read + Len(ring)

LEMMA RestType ==
  ASSUME TypeInv, TimeInv PROVE Rest \in Nat /\ Rest <= wanted /\ Unwarned \in Nat
  BY DEF Rest, Taking, Unwarned, TimeInv, TypeInv, TypeOK, ConsumerTyped

LEMMA UnderType ==
  ASSUME TypeInv
  PROVE  Under \in Spliced /\ Under.at \in Nat /\ Under.to \in Nat /\ Stale(Under) \in Nat
<1>1. /\ pending \in Spliced /\ splicing \in Spliced /\ spliceAt \in Nat /\ spliceTo \in Nat
  BY DEF TypeInv, TypeOK, AsksTyped, ProducerTyped, ConsumerTyped
<1>2. [at |-> spliceAt, to |-> spliceTo] \in Spliced
  BY <1>1 DEF Spliced
<1>3. Under \in Spliced
  BY <1>1, <1>2, NoneType DEF Under
<1>4. Under.at \in Nat /\ Under.to \in Nat
  BY <1>3 DEF Spliced
<1>5. QED
  BY <1>3, <1>4, StaleType

LEMMA TimeInvInit == Init => TimeInv
  BY DEF Init, TimeInv, Under, Noticed, Taking, InPassing

\* A splice is rendered while the callback knows of no other.
LEMMA RenderedAlone ==
  ASSUME SeekInv, SpliceInv, producing = "rendering"
  PROVE  /\ ~IsDiscarding /\ ~Awaited /\ Noticed /\ pending = None
         /\ splicing # None /\ Under = splicing /\ ~InPassing
  BY DEF SeekInv, SpliceInv, Under, Noticed

\* A step that reads nothing, asks for no more and leaves the splice under way is in time.
LEMMA TimeUntouched ==
  ASSUME TypeInv, TimeInv,
         UNCHANGED <<wanted, pulled, pending, read>>,
         Under' = Under, Noticed' <=> Noticed,
         Len(ring') \in Nat, Len(ring') >= Len(ring),
         producing' # "rendering" => producing # "rendering" \/ Under = None,
         Rest' \in Nat, Rest' <= Rest,
         InPassing' => InPassing,
         pulling' \in Taking => left' <= wanted
  PROVE  TimeInv'
<1>1. /\ read \in Nat /\ Len(ring) \in Nat /\ Rest \in Nat /\ Unwarned \in Nat
      /\ Under.to \in Nat /\ Stale(Under) \in Nat
  BY RestType, UnderType, LenProperties DEF TypeInv, TypeOK, FramesTyped, ConsumerTyped
<1>2. Unwarned' \in Nat /\ Unwarned' <= Unwarned
  BY <1>1 DEF Unwarned
<1>3. Stale(Under)' = Stale(Under)
  BY DEF Stale, Less
<1>4. read + Unwarned <= Under.to => read + Unwarned' <= Under.to
  BY <1>1, <1>2
<1>5. Under.to + Stale(Under) <= read + Len(ring) =>
        Under.to + Stale(Under) <= read + Len(ring')
  BY <1>1
<1>6. QED
  BY <1>3, <1>4, <1>5 DEF TimeInv

\* So is any step of the engine that begins and publishes no splice.
LEMMA TimeOfTheEngine ==
  ASSUME TypeInv, TimeInv,
         UNCHANGED <<asked, spliceAt, spliceTo, splicesSeen, pending, read, wanted, pulled,
                     pulling, left>>,
         Len(ring') \in Nat, Len(ring') >= Len(ring),
         producing' = "rendering" <=> producing = "rendering",
         producing = "rendering" => splicing' = splicing
  PROVE  TimeInv'
<1>1. Rest' = Rest /\ Rest \in Nat /\ (InPassing' <=> InPassing)
  BY RestType DEF Rest, InPassing
<1>2. (Noticed' <=> Noticed) /\ Under' = Under
  BY DEF Noticed, Under
<1>3. pulling' \in Taking => left' <= wanted
  BY DEF TimeInv
<1>4. QED
  BY <1>1, <1>2, <1>3, TimeUntouched

\* So is a turn of the callback that takes nothing, nor begins to.
LEMMA TimeOfTheCallback ==
  ASSUME TypeInv, TimeInv,
         UNCHANGED <<ring, asked, spliceAt, spliceTo, splicing, splicesSeen, pending, read,
                     wanted, pulled, producing>>,
         pulling' \notin Taking, Rest' = Rest \/ Rest' = 0
  PROVE  TimeInv'
<1>1. Rest \in Nat
  BY RestType
<1>2. Rest' \in Nat /\ Rest' <= Rest
  BY <1>1
<1>3. (Noticed' <=> Noticed) /\ Under' = Under
  BY DEF Noticed, Under
<1>4. Len(ring') \in Nat /\ Len(ring') >= Len(ring)
  BY LenProperties DEF TypeInv, TypeOK, FramesTyped
<1>5. ~InPassing'
  BY DEF InPassing, Taking
<1>6. QED
  BY <1>2, <1>3, <1>4, <1>5, TimeUntouched

\* A turn that begins to take frames takes no more than this pull wanted.
LEMMA TimeOfTaking ==
  ASSUME TypeInv, TimeInv,
         UNCHANGED <<ring, asked, spliceAt, spliceTo, splicing, splicesSeen, pending, read,
                     wanted, pulled, producing>>,
         pulling \in {"pulled", "sounding"}, pulling' \in {"fading", "taking"},
         NEW most \in Nat, left' = Least(Least(wanted, AvailableFrames), most)
  PROVE  TimeInv'
<1>1. wanted \in Nat /\ AvailableFrames \in Nat
  BY AvailableFramesType DEF TypeInv, TypeOK, ConsumerTyped
<1>2. left' \in Nat /\ left' <= wanted
  BY <1>1, LeastType DEF Least
<1>3. Rest = wanted /\ Rest' = left' /\ ~InPassing'
  BY DEF Rest, Taking, InPassing
<1>4. (Noticed' <=> Noticed) /\ Under' = Under
  BY DEF Noticed, Under
<1>5. Len(ring') \in Nat /\ Len(ring') >= Len(ring)
  BY LenProperties DEF TypeInv, TypeOK, FramesTyped
<1>6. QED
  BY <1>2, <1>3, <1>4, <1>5, TimeUntouched

\* A splice is begun two of the graph's pulls ahead of what it has read.
LEMMA BegunAhead ==
  ASSUME TypeInv, SeekInv, ~IsDiscarding
  PROVE  /\ SplicePoint \in Nat
         /\ read + pulled <= SplicePoint
<1>1. /\ read \in Nat /\ pulled \in Nat /\ written \in Nat /\ Len(ring) \in Nat
      /\ read + Len(ring) = written
  BY LenProperties DEF SeekInv, ReadAgrees, TypeInv, TypeOK, FramesTyped, FaderTyped,
                       ProducerTyped, ConsumerTyped
<1>2. ReadSoFar = read
  BY <1>1 DEF ReadSoFar, Occupied, Less
<1>3. Greatest(Ahead, 2 * pulled) \in Nat /\ Greatest(Ahead, 2 * pulled) >= 2 * pulled
  <2>1. Ahead \in Nat /\ 2 * pulled \in Nat
    BY <1>1, RingAssumption
  <2>2. QED
    BY <2>1, GreatestType
<1>4. SplicePoint = read + Greatest(Ahead, 2 * pulled)
  BY <1>2 DEF SplicePoint
<1>5. QED
  BY <1>1, <1>3, <1>4

\* What a pull takes is in the ring, within what it has left, and short of a splice it
\* has picked up.
LEMMA TakenShortOfTheSplice ==
  ASSUME TypeInv, Take
  PROVE  \E frames \in 1..Len(ring) :
           /\ ring' = SubSeq(ring, frames + 1, Len(ring))
           /\ heard' = <<ring[frames]>>
           /\ inOrder' = /\ inOrder
                         /\ Follows(heard, ring[1])
                         /\ \A i \in 2..frames : Follows(<<ring[i - 1]>>, ring[i])
           /\ read' = read + frames /\ left' = left - frames /\ frames <= left
           /\ pending # None => read + frames <= pending.at
<1> DEFINE frames == Least(FramesBeforeTheSplice, Len(ring))
<1>1. PICK target \in {Silent, Whole} : TakeInto(target)
  BY DEF Take
<1>2. /\ frames > 0 /\ ~(pending # None /\ read >= pending.at)
      /\ heard' = <<ring[frames]>>
      /\ inOrder' = /\ inOrder
                    /\ Follows(heard, ring[1])
                    /\ \A i \in 2..frames : Follows(<<ring[i - 1]>>, ring[i])
      /\ ring' = SubSeq(ring, frames + 1, Len(ring))
      /\ read' = read + frames /\ left' = left - frames
  BY <1>1 DEF TakeInto
<1>3. /\ Len(ring) \in Nat /\ read \in Nat /\ left \in Nat
      /\ pending.at \in Nat
  BY LenProperties DEF TypeInv, TypeOK, FramesTyped, ConsumerTyped, Spliced
<1>4. /\ FramesBeforeTheSplice \in Nat /\ FramesBeforeTheSplice <= left
      /\ pending # None => FramesBeforeTheSplice <= pending.at - read
  BY <1>2, <1>3 DEF FramesBeforeTheSplice, Least, Less
<1>5. frames \in Nat /\ frames <= FramesBeforeTheSplice /\ frames <= Len(ring)
  BY <1>3, <1>4, LeastType
<1> HIDE DEF frames
<1>6. frames \in 1..Len(ring) /\ frames <= left
  BY <1>2, <1>3, <1>4, <1>5
<1>7. pending # None => read + frames <= pending.at
  BY <1>3, <1>4, <1>5
<1>8. QED
  BY <1>2, <1>6, <1>7

\* A pull that picks a splice up leaves it the one under way.
LEMMA PickedUpUnder ==
  ASSUME SeekInv, SpliceInv, TimeInv,
         splicesSeen' = asked,
         pending' = IF ~Noticed THEN [at |-> spliceAt, to |-> spliceTo] ELSE pending,
         UNCHANGED <<asked, spliceAt, spliceTo, splicing, producing>>
  PROVE  Under' = Under
<1>1. Noticed'
  BY DEF Noticed
<1>2. CASE producing = "rendering"
  <2>1. Noticed /\ pending = None
    BY <1>2, RenderedAlone
  <2>2. QED
    BY <1>1, <1>2, <2>1 DEF Under
<1>3. CASE producing # "rendering" /\ Noticed
  BY <1>1, <1>3 DEF Under
<1>4. CASE producing # "rendering" /\ ~Noticed
  <2>1. pending = None
    BY <1>4 DEF TimeInv
  <2>2. QED
    BY <1>1, <1>4, <2>1 DEF Under
<1>5. QED
  BY <1>2, <1>3, <1>4

LEMMA TimeInvStep ==
  ASSUME RendersInTime
  PROVE  IInv /\ SpliceInv /\ TimeInv /\ [Next]_vars => TimeInv'
<1> SUFFICES ASSUME IInv, SpliceInv, TimeInv, [Next]_vars PROVE TimeInv'
  OBVIOUS
<1>i. /\ TypeInv /\ SeekInv /\ TypeOK /\ ring \in Seq(Frame)
      /\ asked \in Nat /\ written \in Nat /\ splicing.at \in Nat /\ splicing.to \in Nat
      /\ read \in Nat /\ left \in Nat /\ wanted \in Nat /\ pulled \in Nat
      /\ Rest \in Nat /\ Rest <= wanted /\ Unwarned \in Nat
      /\ Len(ring) \in Nat /\ Len(ring) <= Len(ring)
      /\ Under.to \in Nat /\ Under.at \in Nat /\ Stale(Under) \in Nat
  BY RestType, UnderType, LenProperties
     DEF IInv, TypeInv, TypeOK, FramesTyped, AsksTyped, FaderTyped, ProducerTyped,
         ConsumerTyped, Spliced
<1> USE DEF shared, atomics, requests, asks, graph, fader, producer, consumer, history, Turn
<1>1. CASE Write
  <2>1. Len(ring') \in Nat /\ Len(ring') >= Len(ring)
    BY <1>i, <1>1, FramesWritten
  <2>2. QED
    BY <1>i, <1>1, <2>1, TimeOfTheEngine DEF Write
<1>2. CASE Finish
  BY <1>i, <1>2, TimeOfTheEngine DEF Finish
<1>7. CASE Pause
  BY <1>i, <1>7, TimeOfTheEngine DEF Pause
<1>8. CASE FadeTowardsSleep
  BY <1>i, <1>8, TimeOfTheEngine DEF FadeTowardsSleep
<1>9. CASE StandDown
  BY <1>i, <1>9, TimeOfTheEngine DEF StandDown
<1>10. CASE FadeIn
  BY <1>i, <1>10, TimeOfTheEngine DEF FadeIn
<1>11. CASE FadedIn
  BY <1>i, <1>11, TimeOfTheEngine DEF FadedIn
<1>3. CASE DiscardBuffered
  BY <1>i, <1>3, TimeOfTheEngine DEF DiscardBuffered
<1>4. CASE BeginSplice
  <2>1. /\ ~IsDiscarding /\ SplicePoint + Blended <= written
        /\ splicing' = [at |-> SplicePoint, to |-> written]
        /\ ~IsSplicing /\ producing' = "rendering"
        /\ UNCHANGED <<asked, taken, splicesSeen, pending, read, wanted, pulled, pulling, left>>
    BY <1>4 DEF BeginSplice
  <2>2. splicing'.to = written /\ splicing'.at = SplicePoint
    BY <2>1
  <2>3. /\ wanted = pulled /\ Blended \in Nat \ {0}
        /\ SplicePoint \in Nat /\ read + pulled <= SplicePoint
    BY <1>i, <2>1, BegunAhead, RingAssumption DEF TimeInv
  <2>4. Rest' = Rest
    BY <2>1 DEF Rest
  <2>5. ~Awaited
    BY <2>1 DEF SpliceInv, IsSplicing, Awaited
  <2>6. pending' = None /\ Noticed'
    BY <2>1, <2>5 DEF SpliceInv, Noticed
  <2>7. Under' = splicing' /\ Unwarned' = Rest
    BY <2>1, <2>4, <2>6 DEF Under, Unwarned
  <2>8. splicing'.at < splicing'.to /\ read' + Rest <= splicing'.to
    BY <1>i, <2>1, <2>2, <2>3
  <2>9. QED
    BY <2>1, <2>6, <2>7, <2>8 DEF TimeInv
<1>5. CASE WriteSpliced
  <2>1. Len(ring') \in Nat /\ Len(ring') >= Len(ring)
    BY <1>i, <1>5, FramesRenderedAgain
  <2>2. QED
    BY <1>i, <1>5, <2>1, TimeOfTheEngine DEF WriteSpliced
<1>6. CASE Splice
  <2>1. /\ producing = "rendering" /\ producing' = "ready" /\ asked' = asked + 1
        /\ spliceAt' = splicing.at /\ spliceTo' = splicing.to
        /\ written - splicing.to = Stale(splicing)
        /\ UNCHANGED <<ring, splicesSeen, splicing, pending, read, wanted, pulled, pulling,
                       left>>
    BY <1>6 DEF Splice
  <2>2. /\ ~IsDiscarding /\ Noticed /\ pending = None /\ splicing # None /\ Under = splicing
        /\ ~InPassing
    BY <1>i, <2>1, RenderedAlone
  <2>3. ~Noticed'
    BY <1>i, <2>1, <2>2 DEF Noticed
  <2>4. Under' = splicing
    <3>1. splicing = [at |-> splicing.at, to |-> splicing.to]
      BY <1>i DEF TypeOK, ProducerTyped, Spliced
    <3>2. QED
      BY <2>1, <2>2, <2>3, <3>1 DEF Under
  <2>5. Unwarned' = Unwarned
    BY <2>1 DEF Unwarned, Rest
  <2>6. Stale(Under)' = Stale(splicing)
    BY <2>4 DEF Stale, Less
  <2>7. read + Len(ring) = written
    BY <1>i, <2>2 DEF SeekInv, ReadAgrees
  <2>8. splicing.to + Stale(splicing) <= read' + Len(ring')
    BY <1>i, <2>1, <2>2, <2>7
  <2>9. splicing.at < splicing.to /\ read + Unwarned <= splicing.to
    BY <2>2 DEF TimeInv
  <2>10. pending' = None /\ ~InPassing' /\ wanted' = pulled'
         /\ (pulling' \in Taking => left' <= wanted')
    BY <2>1, <2>2 DEF TimeInv, InPassing
  <2>11. QED
    BY <2>1, <2>2, <2>4, <2>5, <2>6, <2>8, <2>9, <2>10 DEF TimeInv
<1>12. CASE Pull
  <2>1. PICK frames \in Pulls :
          /\ producing = "rendering" => read + frames <= splicing.to
          /\ wanted' = frames /\ pulled' = frames
    BY <1>12, RendersInTime DEF Pull
  <2>2. /\ pulling' = "pulled" /\ splicesSeen' = asked
        /\ pending' = IF ~Noticed THEN [at |-> spliceAt, to |-> spliceTo] ELSE pending
        /\ UNCHANGED <<ring, asked, spliceAt, spliceTo, splicing, read, producing>>
    BY <1>12 DEF Pull, Noticed
  <2>3. Noticed'
    BY <2>2 DEF Noticed
  <2>4. Under' = Under
    BY <1>i, <2>2, PickedUpUnder
  <2>5. Stale(Under)' = Stale(Under)
    BY <2>4 DEF Stale, Less
  <2>6. Rest' = frames /\ pulling' \notin Taking
    BY <2>1, <2>2 DEF Rest, Taking
  <2>7. ASSUME Under # None PROVE read' + Unwarned' <= Under.to
    <3>1. CASE producing = "rendering"
      <4>1. Under = splicing /\ pending = None /\ Noticed
        BY <1>i, <3>1, RenderedAlone
      <4>2. Unwarned' = frames
        BY <2>2, <2>6, <4>1 DEF Unwarned
      <4>3. QED
        BY <2>1, <2>2, <3>1, <4>1, <4>2
    <3>2. CASE producing # "rendering"
      <4>1. pending' # None
        BY <2>2, <2>3, <2>4, <2>7, <3>2 DEF Under
      <4>2. Unwarned' = 0
        BY <4>1 DEF Unwarned
      <4>3. read + Unwarned <= Under.to
        BY <2>7 DEF TimeInv
      <4>4. QED
        BY <1>i, <2>2, <4>2, <4>3
    <3>3. QED
      BY <3>1, <3>2
  <2>8. QED
    BY <2>1, <2>2, <2>3, <2>4, <2>5, <2>6, <2>7 DEF TimeInv
<1>13. CASE FadeBeforeTheDiscard
  <2>1. FramesUntilSilent \in Nat
    BY <1>i, FramesUntilSilentType DEF TypeOK, FaderTyped, ConsumerTyped
  <2>2. QED
    BY <1>i, <1>13, <2>1, TimeOfTaking DEF FadeBeforeTheDiscard
<1>15. CASE PassOver
  <2>1. /\ pending # None /\ pending' = None
        /\ pulling \in Taking
        /\ UNCHANGED <<asked, splicesSeen, producing, wanted, pulled, left>>
    BY <1>15 DEF PassOver, Taking
  <2>2. Noticed' /\ producing' # "rendering"
    BY <1>i, <2>1, RenderedAlone DEF TimeInv, Noticed
  <2>3. Under' = None
    BY <2>1, <2>2 DEF Under
  <2>4. left' <= wanted'
    BY <2>1 DEF TimeInv
  <2>5. QED
    BY <2>1, <2>2, <2>3, <2>4 DEF TimeInv
<1>31. CASE TellItIsPassed
  <2>1. /\ InPassing /\ ~InPassing' /\ pulling \in Taking /\ pulling' \in Taking
        /\ UNCHANGED <<ring, asked, spliceAt, spliceTo, splicing, splicesSeen, pending, read,
                       wanted, pulled, left, producing>>
    BY <1>31 DEF TellItIsPassed, InPassing, Taking
  <2>2. Rest' = Rest /\ left' <= wanted
    BY <2>1 DEF Rest, TimeInv
  <2>3. (Noticed' <=> Noticed) /\ Under' = Under
    BY <2>1 DEF Noticed, Under
  <2>4. Len(ring') \in Nat /\ Len(ring') >= Len(ring)
    BY <1>i, <2>1
  <2>5. Rest' \in Nat /\ Rest' <= Rest
    BY <1>i, <2>2
  <2>6. QED
    BY <1>i, <2>1, <2>2, <2>3, <2>4, <2>5, TimeUntouched
<1>32. CASE AskWhetherAudible
  BY <1>i, <1>32, TimeOfTheEngine DEF AskWhetherAudible
<1>33. CASE NotAudible
  BY <1>i, <1>33, TimeOfTheEngine DEF NotAudible
<1>16. CASE Take
  <2>1. PICK frames \in 1..Len(ring) :
          /\ ring' = SubSeq(ring, frames + 1, Len(ring))
          /\ read' = read + frames /\ left' = left - frames /\ frames <= left
          /\ pending # None => read + frames <= pending.at
    BY <1>i, <1>16, TakenShortOfTheSplice
  <2>2. /\ pulling \in {"fading", "taking"} /\ pulling \in Taking
        /\ UNCHANGED <<asked, spliceAt, spliceTo, splicing, splicesSeen, pending, producing,
                       wanted, pulled, pulling>>
    BY <1>16 DEF Take, TakeInto, Taking
  <2>3. (Noticed' <=> Noticed) /\ Under' = Under /\ Stale(Under)' = Stale(Under)
    BY <2>2 DEF Noticed, Under, Stale, Less
  <2>4. Rest = left /\ Rest' = left'
    BY <2>2 DEF Rest
  <2>5. Len(ring') = Len(ring) - frames
    BY <1>i, <2>1, TailOfRing
  <2>6. read' + Len(ring') = read + Len(ring)
    <3>1. frames \in Nat
      BY <1>i, <2>1
    <3>2. (read + frames) + (Len(ring) - frames) = read + Len(ring)
      BY <1>i, <3>1, ReadAsTaken
    <3>3. QED
      BY <2>1, <2>5, <3>2, Zenon
  <2>7. left' <= wanted
    BY <1>i, <2>1, <2>2 DEF TimeInv
  <2>8. ASSUME Under # None PROVE read' + Unwarned' <= Under.to
    <3>1. CASE pending = None
      <4>1. Unwarned = left /\ Unwarned' = left'
        BY <2>2, <2>4, <3>1 DEF Unwarned
      <4>2. read + left <= Under.to
        BY <2>8, <4>1 DEF TimeInv
      <4>3. QED
        BY <1>i, <2>1, <4>1, <4>2
    <3>2. CASE pending # None
      <4>1. Unwarned' = 0 /\ Under = pending
        BY <2>2, <3>2 DEF Unwarned, Under
      <4>2. Under.at < Under.to
        BY <2>8 DEF TimeInv
      <4>3. QED
        BY <1>i, <2>1, <3>2, <4>1, <4>2
    <3>3. QED
      BY <3>1, <3>2
  <2>9. ~InPassing'
    BY <2>2 DEF InPassing
  <2>10. QED
    BY <2>2, <2>3, <2>6, <2>7, <2>8, <2>9 DEF TimeInv
<1>19. CASE Drain
  <2>1. IsDiscarding
    BY <1>i, <1>19 DEF Drain, SeekInv, IsDiscarding, Draining, TypeOK, AsksTyped, ConsumerTyped
  <2>2. /\ pulling' \notin Taking /\ splicesSeen' = asked /\ pending' = None
        /\ UNCHANGED <<asked, producing, wanted, pulled>>
    BY <1>19 DEF Drain, Taking
  <2>3. Noticed' /\ producing' # "rendering"
    BY <1>i, <2>1, <2>2, RenderedAlone DEF Noticed
  <2>4. Under' = None
    BY <2>2, <2>3 DEF Under
  <2>5. QED
    BY <2>2, <2>3, <2>4 DEF TimeInv
<1>20. CASE AnswerTheDiscard
  <2>1. /\ Draining /\ pulling' \notin Taking
        /\ UNCHANGED <<asked, splicesSeen, pending, producing, wanted, pulled>>
    BY <1>20 DEF AnswerTheDiscard, Draining, Taking
  <2>2. pending' = None /\ Noticed' /\ producing' # "rendering"
    BY <1>i, <2>1, RenderedAlone DEF SeekInv, SpliceInv, Noticed
  <2>3. Under' = None
    BY <2>2 DEF Under
  <2>4. QED
    BY <2>1, <2>2, <2>3 DEF TimeInv
<1>25. CASE Sound
  <2>1. wanted \in Nat /\ FramesUntilSilent \in Nat
    BY <1>i, FramesUntilSilentType DEF TypeOK, FaderTyped, ConsumerTyped
  <2>2. PICK most \in Nat : left' = Least(Least(wanted, AvailableFrames), most)
    BY <1>25, <2>1 DEF Sound
  <2>3. QED
    BY <1>i, <1>25, <2>2, TimeOfTaking DEF Sound
<1>14. CASE NothingToFade
  BY <1>i, <1>14, TimeOfTheCallback DEF NothingToFade, Rest, Taking
<1>17. CASE Faded
  BY <1>i, <1>17, TimeOfTheCallback DEF Faded, Rest, Taking
<1>18. CASE NothingToDiscard
  BY <1>i, <1>18, TimeOfTheCallback DEF NothingToDiscard, Rest, Taking
<1>21. CASE Held
  BY <1>i, <1>21, TimeOfTheCallback DEF Held, Rest, Taking
<1>22. CASE LeadIn
  BY <1>i, <1>22, TimeOfTheCallback DEF LeadIn, Rest, Taking
<1>23. CASE Refilling
  BY <1>i, <1>23, TimeOfTheCallback DEF Refilling, Rest, Taking
<1>24. CASE Hush
  BY <1>i, <1>24, TimeOfTheCallback DEF Hush, Rest, Taking
<1>26. CASE TakenWhole
  BY <1>i, <1>26, TimeOfTheCallback DEF TakenWhole, Rest, Taking
<1>27. CASE GoQuiet
  BY <1>i, <1>27, TimeOfTheCallback DEF GoQuiet, Rest, Taking
<1>28. CASE EndPull
  BY <1>i, <1>28, TimeOfTheCallback DEF EndPull, Rest, Taking
<1>29. CASE UNCHANGED vars
  BY <1>i, <1>29, TimeOfTheEngine DEF vars
<1>30. QED
  BY <1>1, <1>2, <1>3, <1>4, <1>5, <1>6, <1>7, <1>8, <1>9, <1>10, <1>11, <1>12, <1>13, <1>14,
     <1>15, <1>16, <1>17, <1>18, <1>19, <1>20, <1>21, <1>22, <1>23, <1>24, <1>25, <1>26,
     <1>27, <1>28, <1>29, <1>31, <1>32, <1>33
     DEF Next, Producer, Callback

LEMMA TimeInvHolds ==
  ASSUME RendersInTime
  PROVE  Spec => [](IInv /\ SpliceInv /\ TimeInv)
<1>1. Init => IInv /\ SpliceInv /\ TimeInv
  BY IInvInit, SpliceInvInit, TimeInvInit
<1>2. IInv /\ SpliceInv /\ TimeInv /\ [Next]_vars => (IInv /\ SpliceInv /\ TimeInv)'
  BY IInvStep, SpliceInvStep, TimeInvStep, RendersInTime
<1>3. QED
  BY <1>1, <1>2, PTL DEF Spec

\* What TimeInv says of a splice the graph has picked up, seek or none.
LEMMA PickedUp ==
  ASSUME IInv, SpliceInv, TimeInv, pending # None
  PROVE  /\ Under = pending /\ producing # "rendering"
         /\ pending.at < pending.to
         /\ read <= pending.to
         /\ Stale(pending) <= Len(ring)
<1>1. Under = pending /\ Unwarned = 0
  BY DEF Under, Unwarned
<1>2. producing # "rendering"
  BY RenderedAlone DEF IInv
<1>3. /\ pending.at < pending.to
      /\ read + 0 <= pending.to
      /\ pending.to + Stale(pending) <= read + Len(ring)
  BY <1>1, <1>2 DEF TimeInv
<1>4. /\ read \in Nat /\ Len(ring) \in Nat /\ pending.to \in Nat /\ Stale(pending) \in Nat
  BY LenProperties, StaleType DEF IInv, TypeInv, TypeOK, FramesTyped, ConsumerTyped, Spliced
<1>5. read <= pending.to /\ Stale(pending) <= Len(ring)
  BY <1>3, <1>4
<1>6. QED
  BY <1>1, <1>2, <1>3, <1>5

\* While the engine renders a splice before the graph runs out of old frames, a splice the
\* graph has picked up is passed over whole: its stale run is still ahead of what was read,
\* and all that stands in for it is in the ring behind it.
THEOREM SpliceLandsWholeAlways ==
  ASSUME RendersInTime
  PROVE  Spec => []SpliceLandsWhole
<1>1. IInv /\ SpliceInv /\ TimeInv => SpliceLandsWhole
  BY PickedUp DEF SpliceLandsWhole
<1>2. Spec => [](IInv /\ SpliceInv /\ TimeInv)
  BY TimeInvHolds, RendersInTime
<1>3. QED
  BY <1>1, <1>2, PTL

-----------------------------------------------------------------------------
(* The room a splice takes.                                                *)

\* Twice the capacity is always enough: what is heard of the ring is within the capacity
\* and the surplus, and the stale run and what stands in for it fit the rest.
RoomInv ==
  ~IsDiscarding =>
    /\ Len(ring) <= Room
    /\ IF producing = "rendering"
       THEN /\ written - splicing.to <= Stale(splicing)
            /\ Len(ring) <= Capacity + surplus + (written - splicing.to)
            /\ Len(ring) + Stale(splicing) <= Room + (written - splicing.to)
       ELSE Len(ring) <= Capacity + surplus + (IF StillAhead THEN Stale(splicing) ELSE 0)

LEMMA RoomInvInit == Init => RoomInv
<1>1. Capacity \in Nat /\ Room \in Nat
  BY RingAssumption DEF Room
<1>2. QED
  BY <1>1 DEF Init, RoomInv, IsDiscarding, StillAhead, Awaited

\* Frames that leave the ring leave room.
LEMMA RoomUntouched ==
  ASSUME TypeInv, RoomInv,
         UNCHANGED <<requested, applied, splicing, written, surplus>>,
         StillAhead' <=> StillAhead, Len(ring') \in Nat, Len(ring') <= Len(ring),
         producing' = "rendering" <=> producing = "rendering"
  PROVE  RoomInv'
<1>1. /\ Len(ring) \in Nat /\ written \in Nat /\ splicing.to \in Nat
      /\ surplus \in Nat /\ Stale(splicing) \in Nat /\ Capacity \in Nat /\ Room \in Nat
  BY LenProperties, StaleType, RingAssumption
     DEF TypeInv, TypeOK, FramesTyped, ProducerTyped, Spliced, Room
<1>2. IsDiscarding' <=> IsDiscarding
  BY DEF IsDiscarding
<1>3. Stale(splicing)' = Stale(splicing) /\ splicing' = splicing /\ Room' = Room
  BY DEF Stale, Less, Room
<1>4. ASSUME ~IsDiscarding PROVE RoomInv'
  <2>1. CASE producing = "rendering"
    BY <1>1, <1>2, <1>3, <1>4, <2>1 DEF RoomInv
  <2>2. CASE producing # "rendering" /\ StillAhead
    BY <1>1, <1>2, <1>3, <1>4, <2>2 DEF RoomInv
  <2>3. CASE producing # "rendering" /\ ~StillAhead
    BY <1>1, <1>2, <1>3, <1>4, <2>3 DEF RoomInv
  <2>4. QED
    BY <2>1, <2>2, <2>3
<1>5. QED
  BY <1>2, <1>4 DEF RoomInv

\* What the engine holds for heard is all of the ring but the stale run of a splice that
\* is awaited.
LEMMA HeldIs ==
  ASSUME TypeInv, SpliceInv, ~IsDiscarding
  PROVE  HeldFrames = Less(Len(ring), IF Awaited THEN Stale(splicing) ELSE 0)
<1>1. IsSplicing <=> Awaited
  BY DEF SpliceInv, IsSplicing, Awaited
<1>2. QED
  BY <1>1 DEF HeldFrames, Occupied

\* Frames rendered again take the room that was left for them.
LEMMA RoomRenderedInto ==
  ASSUME NEW held \in Nat, NEW ahead \in Nat, NEW to \in Nat, NEW stale \in Nat,
         NEW capacity \in Nat, NEW room \in Nat, NEW frames \in Nat,
         ahead + frames <= to + stale, held <= capacity + (ahead - to),
         held + stale <= room + (ahead - to)
  PROVE  /\ held + frames <= room
         /\ held + frames <= capacity + (ahead + frames - to)
         /\ held + frames + stale <= room + (ahead + frames - to)
         /\ ahead + frames - to <= stale
  OBVIOUS

\* Frames that fit beside what is held fit in the capacity, the surplus and what is ahead.
LEMMA RoomWritten ==
  ASSUME NEW len \in Nat, NEW frames \in Nat, NEW capacity \in Nat, NEW held \in Nat,
         NEW more \in Nat, NEW ahead \in Nat,
         len + frames <= capacity + held, held <= more + ahead
  PROVE  len + frames <= capacity + more + ahead
  OBVIOUS

LEMMA RoomInvStep == IInv /\ SpliceInv /\ RoomInv /\ [Next]_vars => RoomInv'
<1> SUFFICES ASSUME IInv, SpliceInv, RoomInv, [Next]_vars PROVE RoomInv'
  OBVIOUS
<1>i. /\ TypeInv /\ SeekInv /\ TypeOK /\ ring \in Seq(Frame)
      /\ requested \in Nat /\ applied \in Nat /\ asked \in Nat /\ taken \in Nat
      /\ Len(ring) \in Nat /\ written \in Nat /\ splicing \in Spliced /\ surplus \in Nat
      /\ splicing.at \in Nat /\ splicing.to \in Nat
      /\ Stale(splicing) \in Nat /\ Capacity \in Nat /\ Room \in Nat
  BY LenProperties, StaleType, RingAssumption
     DEF IInv, TypeInv, TypeOK, FramesTyped, AsksTyped, ProducerTyped, Spliced, Room
<1>l. Len(ring) <= Len(ring)
  BY <1>i
<1> USE DEF shared, atomics, requests, asks, graph, fader, producer, consumer, history, Turn
<1>1. CASE Write
  <2> DEFINE held  == IF Awaited THEN Stale(splicing) ELSE 0
             ahead == IF StillAhead THEN Stale(splicing) ELSE 0
  <2>1. PICK frames \in Nat : /\ frames <= FreeFrames
                              /\ Len(ring') = Len(ring) + frames
    BY <1>i, <1>1, FramesWritten
  <2>2. /\ ~IsDiscarding /\ producing = "ready" /\ producing' = "ready"
        /\ surplus' = IF InPassing THEN Greatest(surplus, Stale(splicing)) ELSE surplus
        /\ UNCHANGED <<requested, applied, asked, taken, splicing, pulling>>
    BY <1>1 DEF Write
  <2>3. /\ (IsDiscarding' <=> IsDiscarding) /\ (StillAhead' <=> StillAhead)
        /\ Stale(splicing)' = Stale(splicing) /\ Room' = Room
    BY <2>2 DEF IsDiscarding, StillAhead, Awaited, InPassing, Stale, Less, Room
  <2>4. held \in Nat /\ ahead \in Nat
    BY <1>i
  <2>5. Len(ring) <= Room /\ Len(ring) <= Capacity + surplus + ahead
    BY <2>2 DEF RoomInv
  <2>6. FreeFrames = Least(Less(Capacity, Less(Len(ring), held)), Room - Len(ring))
    BY <1>i, <2>2, HeldIs DEF FreeFrames, RoomFrames, Occupied
  <2>7. surplus' \in Nat /\ surplus' >= surplus /\ held <= surplus' + ahead
    <3>1. CASE InPassing
      <4>1. Greatest(surplus, Stale(splicing)) \in Nat
            /\ Greatest(surplus, Stale(splicing)) >= surplus
            /\ Greatest(surplus, Stale(splicing)) >= Stale(splicing)
        BY <1>i, GreatestType
      <4>2. held <= Stale(splicing)
        BY <1>i
      <4>3. surplus' = Greatest(surplus, Stale(splicing))
        BY <2>2, <3>1
      <4> HIDE DEF held, ahead
      <4>4. QED
        BY <1>i, <2>4, <4>1, <4>2, <4>3
    <3>2. CASE ~InPassing
      <4>1. surplus' = surplus /\ held = ahead
        BY <2>2, <3>2 DEF StillAhead
      <4> HIDE DEF held, ahead
      <4>2. QED
        BY <1>i, <2>4, <4>1
    <3>3. QED
      BY <3>1, <3>2
  <2>8. ahead' = ahead
    BY <2>3
  <2> HIDE DEF held, ahead
  <2>9. frames <= Room - Len(ring) /\ frames <= Less(Capacity, Less(Len(ring), held))
    <3>1. Less(Len(ring), held) \in Nat
      BY <1>i, <2>4, LessType
    <3>a. Less(Capacity, Less(Len(ring), held)) \in Nat
      BY <1>i, <3>1, LessType
    <3>2. Less(Capacity, Less(Len(ring), held)) \in Nat /\ Room - Len(ring) \in Nat
      BY <1>i, <2>5, <3>a
    <3>3. /\ FreeFrames \in Nat /\ FreeFrames <= Room - Len(ring)
          /\ FreeFrames <= Less(Capacity, Less(Len(ring), held))
      BY <2>6, <3>2, LeastType
    <3>4. QED
      BY <2>1, <3>2, <3>3
  <2>10. Len(ring) + frames <= Capacity + surplus' + ahead
    <3>1. CASE frames = 0
      BY <1>i, <2>4, <2>5, <2>7, <3>1
    <3>2. CASE frames # 0
      <4>1. Len(ring) + frames <= Capacity + held
        BY <1>i, <2>1, <2>4, <2>9, <3>2 DEF Less
      <4>2. Len(ring) \in Nat /\ frames \in Nat /\ Capacity \in Nat
            /\ held \in Nat /\ surplus' \in Nat /\ ahead \in Nat
            /\ held <= surplus' + ahead
        BY <1>i, <2>1, <2>4, <2>7
      <4>3. QED
        BY <4>1, <4>2, RoomWritten, Zenon
    <3>3. QED
      BY <3>1, <3>2
  <2>11. Len(ring') <= Room /\ Len(ring') <= Capacity + surplus' + ahead'
    BY <1>i, <2>1, <2>8, <2>9, <2>10
  <2>12. Len(ring') <= Capacity + surplus' + (IF StillAhead THEN Stale(splicing) ELSE 0)
    BY <2>8, <2>11 DEF ahead
  <2>13. QED
    BY <2>2, <2>3, <2>11, <2>12 DEF RoomInv
<1>2. CASE Finish
  BY <1>i, <1>l, <1>2, RoomUntouched DEF Finish, StillAhead, Awaited, InPassing
<1>7. CASE Pause
  BY <1>i, <1>l, <1>7, RoomUntouched DEF Pause, StillAhead, Awaited, InPassing
<1>8. CASE FadeTowardsSleep
  BY <1>i, <1>l, <1>8, RoomUntouched DEF FadeTowardsSleep, StillAhead, Awaited, InPassing
<1>9. CASE StandDown
  BY <1>i, <1>l, <1>9, RoomUntouched DEF StandDown, StillAhead, Awaited, InPassing
<1>10. CASE FadeIn
  BY <1>i, <1>l, <1>10, RoomUntouched DEF FadeIn, StillAhead, Awaited, InPassing
<1>11. CASE FadedIn
  BY <1>i, <1>l, <1>11, RoomUntouched DEF FadedIn, StillAhead, Awaited, InPassing
<1>12. CASE Pull
  BY <1>i, <1>l, <1>12, RoomUntouched DEF Pull, StillAhead, Awaited, InPassing
<1>13. CASE FadeBeforeTheDiscard
  BY <1>i, <1>l, <1>13, RoomUntouched DEF FadeBeforeTheDiscard, StillAhead, Awaited, InPassing
<1>14. CASE NothingToFade
  BY <1>i, <1>l, <1>14, RoomUntouched DEF NothingToFade, StillAhead, Awaited, InPassing
<1>17. CASE Faded
  BY <1>i, <1>l, <1>17, RoomUntouched DEF Faded, StillAhead, Awaited, InPassing
<1>18. CASE NothingToDiscard
  BY <1>i, <1>l, <1>18, RoomUntouched DEF NothingToDiscard, StillAhead, Awaited, InPassing
<1>21. CASE Held
  BY <1>i, <1>l, <1>21, RoomUntouched DEF Held, StillAhead, Awaited, InPassing
<1>22. CASE LeadIn
  BY <1>i, <1>l, <1>22, RoomUntouched DEF LeadIn, StillAhead, Awaited, InPassing
<1>23. CASE Refilling
  BY <1>i, <1>l, <1>23, RoomUntouched DEF Refilling, StillAhead, Awaited, InPassing
<1>24. CASE Hush
  BY <1>i, <1>l, <1>24, RoomUntouched DEF Hush, StillAhead, Awaited, InPassing
<1>25. CASE Sound
  BY <1>i, <1>l, <1>25, RoomUntouched DEF Sound, StillAhead, Awaited, InPassing
<1>26. CASE TakenWhole
  BY <1>i, <1>l, <1>26, RoomUntouched DEF TakenWhole, StillAhead, Awaited, InPassing
<1>27. CASE GoQuiet
  BY <1>i, <1>l, <1>27, RoomUntouched DEF GoQuiet, StillAhead, Awaited, InPassing
<1>28. CASE EndPull
  BY <1>i, <1>l, <1>28, RoomUntouched DEF EndPull, StillAhead, Awaited, InPassing
<1>3. CASE DiscardBuffered
  <2>1. IsDiscarding'
    BY <1>i, <1>3 DEF DiscardBuffered, IsDiscarding, SeekInv
  <2>2. QED
    BY <2>1 DEF RoomInv
<1>4. CASE BeginSplice
  <2>1. /\ ~IsDiscarding /\ ~IsSplicing /\ producing = "ready" /\ producing' = "rendering"
        /\ SplicePoint + Blended <= written /\ written - SplicePoint <= Room - Len(ring)
        /\ splicing' = [at |-> SplicePoint, to |-> written]
        /\ UNCHANGED <<ring, requested, applied, written, surplus>>
    BY <1>4 DEF BeginSplice, RoomFrames, Occupied
  <2>2. SplicePoint \in Nat /\ Blended \in Nat
    BY <1>i, SplicePointType, RingAssumption
  <2>3. splicing'.at = SplicePoint /\ splicing'.to = written
    BY <2>1
  <2>4. Stale(splicing)' = written - SplicePoint
    BY <1>i, <2>1, <2>2, <2>3 DEF Stale, Less
  <2>5. ~Awaited
    BY <2>1 DEF SpliceInv, IsSplicing, Awaited
  <2>6. Len(ring) <= Room /\ Len(ring) <= Capacity + surplus
    BY <1>i, <2>1, <2>5 DEF RoomInv, StillAhead
  <2>7. Len(ring') = Len(ring) /\ written' = written /\ Room' = Room
    BY <2>1 DEF Room
  <2>8. /\ Len(ring') <= Room
        /\ written' - splicing'.to <= Stale(splicing)'
        /\ Len(ring') <= Capacity + surplus + (written' - splicing'.to)
        /\ Len(ring') + Stale(splicing)' <= Room + (written' - splicing'.to)
    BY <1>i, <2>1, <2>2, <2>3, <2>4, <2>6, <2>7
  <2>9. QED
    BY <2>1, <2>7, <2>8 DEF RoomInv
<1>5. CASE WriteSpliced
  <2>1. PICK frames \in Nat : /\ written + frames <= splicing.to + Stale(splicing)
                              /\ Len(ring') = Len(ring) + frames
                              /\ written' = written + frames
    BY <1>i, <1>5, FramesRenderedAgain
  <2>2. /\ producing = "rendering" /\ producing' = "rendering"
        /\ UNCHANGED <<requested, applied, splicing, surplus>>
    BY <1>5 DEF WriteSpliced
  <2>3. ~IsDiscarding
    BY <1>i, <2>2 DEF SeekInv
  <2>4. /\ Stale(splicing)' = Stale(splicing) /\ splicing' = splicing /\ Room' = Room
    BY <2>2 DEF Stale, Less, Room
  <2>5. /\ Len(ring) <= Capacity + surplus + (written - splicing.to)
        /\ Len(ring) + Stale(splicing) <= Room + (written - splicing.to)
    BY <2>2, <2>3 DEF RoomInv
  <2>6. /\ Len(ring') <= Room
        /\ written' - splicing.to <= Stale(splicing)
        /\ Len(ring') <= Capacity + surplus + (written' - splicing.to)
        /\ Len(ring') + Stale(splicing) <= Room + (written' - splicing.to)
    <3>1. PICK held \in Nat, ahead \in Nat, to \in Nat, stale \in Nat, capacity \in Nat,
               room \in Nat :
            /\ held = Len(ring) /\ ahead = written /\ to = splicing.to
            /\ stale = Stale(splicing) /\ capacity = Capacity + surplus /\ room = Room
      BY <1>i
    <3>2. /\ ahead + frames <= to + stale
          /\ held <= capacity + (ahead - to)
          /\ held + stale <= room + (ahead - to)
      BY <2>1, <2>5, <3>1
    <3>3. /\ held + frames <= room
          /\ held + frames <= capacity + (ahead + frames - to)
          /\ held + frames + stale <= room + (ahead + frames - to)
          /\ ahead + frames - to <= stale
      BY <3>2, RoomRenderedInto
    <3>4. Len(ring') = held + frames /\ written' = ahead + frames
      BY <2>1, <3>1
    <3>5. /\ Len(ring') <= room
          /\ written' - to <= stale
          /\ Len(ring') <= capacity + (written' - to)
          /\ Len(ring') + stale <= room + (written' - to)
      BY <3>3, <3>4
    <3> QED BY <3>1, <3>5
  <2>7. QED
    BY <2>2, <2>4, <2>6 DEF RoomInv
<1>6. CASE Splice
  <2>1. /\ producing = "rendering" /\ producing' = "ready" /\ asked' = asked + 1
        /\ written - splicing.to = Stale(splicing)
        /\ UNCHANGED <<ring, requested, applied, taken, splicing, pulling, surplus>>
    BY <1>6 DEF Splice
  <2>2. ~IsDiscarding /\ taken = asked /\ ~InPassing
    BY <1>i, <2>1 DEF SpliceInv, SeekInv, Awaited
  <2>3. StillAhead'
    BY <1>i, <2>1, <2>2 DEF StillAhead, Awaited, InPassing
  <2>4. Stale(splicing)' = Stale(splicing) /\ Len(ring') = Len(ring) /\ Room' = Room
    BY <2>1 DEF Stale, Less, Room
  <2>5. Len(ring) <= Room /\ Len(ring) <= Capacity + surplus + Stale(splicing)
    BY <2>1, <2>2 DEF RoomInv
  <2>6. QED
    BY <2>1, <2>3, <2>4, <2>5 DEF RoomInv
<1>15. CASE PassOver
  <2> DEFINE stale == Least(Stale(pending), Len(ring))
  <2>1. /\ pending # None /\ InPassing' /\ ~InPassing
        /\ ring' = SubSeq(ring, stale + 1, Len(ring))
        /\ UNCHANGED <<requested, applied, producing, surplus>>
    BY <1>15 DEF PassOver, InPassing
  <2>2. Stale(pending) \in Nat /\ stale \in Nat /\ stale <= Len(ring)
    BY <1>i, StaleType, LeastType DEF TypeOK, ConsumerTyped
  <2>3. Len(ring') = Len(ring) - stale
    BY <1>i, <2>1, <2>2, TailOfRing
  <2>4. IsDiscarding' <=> IsDiscarding
    BY <2>1 DEF IsDiscarding
  <2>5. ASSUME ~IsDiscarding PROVE RoomInv'
    <3>1. Awaited /\ Noticed /\ pending = splicing
      BY <2>1, <2>5 DEF SpliceInv
    <3>2. producing # "rendering" /\ StillAhead /\ ~StillAhead'
      BY <2>1, <3>1 DEF SpliceInv, StillAhead
    <3>3. Len(ring) <= Room /\ Len(ring) <= Capacity + surplus + Stale(splicing)
      BY <2>5, <3>1, <3>2 DEF RoomInv
    <3>4. stale = IF Stale(splicing) < Len(ring) THEN Stale(splicing) ELSE Len(ring)
      BY <3>1 DEF Least
    <3> HIDE DEF stale
    <3>5. Len(ring') <= Room /\ Len(ring') <= Capacity + surplus
      BY <1>i, <2>2, <2>3, <3>3, <3>4
    <3>6. /\ Room' = Room /\ Capacity + surplus + 0 = Capacity + surplus
          /\ producing' # "rendering" /\ surplus' = surplus
      BY <1>i, <2>1, <3>2 DEF Room
    <3>7. QED
      BY <3>2, <3>5, <3>6 DEF RoomInv
  <2>6. QED
    BY <2>4, <2>5 DEF RoomInv
<1>31. CASE TellItIsPassed
  <2>1. /\ InPassing /\ taken' = splicesSeen
        /\ UNCHANGED <<ring, requested, applied, asked, splicesSeen, producing, surplus>>
    BY <1>31 DEF TellItIsPassed, InPassing
  <2>2. IsDiscarding' <=> IsDiscarding
    BY <2>1 DEF IsDiscarding
  <2>3. ASSUME ~IsDiscarding PROVE RoomInv'
    <3>1. Awaited /\ Noticed
      BY <2>1, <2>3 DEF SpliceInv
    <3>2. producing # "rendering" /\ ~StillAhead /\ ~StillAhead'
      BY <2>1, <3>1 DEF SpliceInv, StillAhead, Awaited, Noticed
    <3>3. Len(ring) <= Room /\ Len(ring) <= Capacity + surplus + 0
      BY <2>3, <3>2 DEF RoomInv
    <3>4. Room' = Room /\ Len(ring') = Len(ring) /\ surplus' = surplus
          /\ producing' # "rendering"
      BY <2>1, <3>2 DEF Room
    <3>5. QED
      BY <3>2, <3>3, <3>4 DEF RoomInv
  <2>4. QED
    BY <2>2, <2>3 DEF RoomInv
<1>32. CASE AskWhetherAudible
  BY <1>i, <1>l, <1>32, RoomUntouched DEF AskWhetherAudible, StillAhead, Awaited, InPassing
<1>33. CASE NotAudible
  BY <1>i, <1>l, <1>33, RoomUntouched DEF NotAudible, StillAhead, Awaited, InPassing
<1>16. CASE Take
  <2>1. PICK target \in {Silent, Whole} : TakeInto(target)
    BY <1>16 DEF Take
  <2>2. PICK frames \in 1..Len(ring) : ring' = SubSeq(ring, frames + 1, Len(ring))
    BY <1>i, <2>1, TakenFromTheRing
  <2>3. frames \in Nat /\ frames <= Len(ring)
    BY <1>i, <2>2
  <2>4. Len(ring') = Len(ring) - frames
    BY <1>i, <2>2, <2>3, TailOfRing
  <2>5. Len(ring') \in Nat /\ Len(ring') <= Len(ring)
    BY <1>i, <2>3, <2>4
  <2>6. /\ UNCHANGED <<requested, applied, splicing, written, producing, surplus>>
        /\ StillAhead' <=> StillAhead
    BY <1>16 DEF Take, TakeInto, StillAhead, Awaited, InPassing
  <2>7. QED
    BY <1>i, <2>5, <2>6, RoomUntouched
<1>19. CASE Drain
  <2>1. IsDiscarding
    BY <1>i, <1>19 DEF Drain, SeekInv, IsDiscarding, Draining
  <2>2. UNCHANGED <<requested, applied>>
    BY <1>19 DEF Drain
  <2>3. QED
    BY <2>1, <2>2 DEF RoomInv, IsDiscarding
<1>20. CASE AnswerTheDiscard
  <2>1. /\ Draining /\ taken' = splicesSeen
        /\ UNCHANGED <<ring, asked, splicesSeen, producing, surplus>>
    BY <1>20 DEF AnswerTheDiscard, Draining
  <2>2. ring' = <<>> /\ producing' # "rendering" /\ ~StillAhead'
    BY <1>i, <2>1 DEF SeekInv, SpliceInv, StillAhead, Awaited, Noticed
  <2>3. Len(ring') = 0 /\ Room' = Room
    BY <2>2 DEF Room
  <2>4. 0 <= Capacity + surplus' + 0 /\ 0 <= Room
    BY <1>i, <2>1
  <2>5. QED
    BY <2>2, <2>3, <2>4 DEF RoomInv
<1>29. CASE UNCHANGED vars
  BY <1>i, <1>l, <1>29, RoomUntouched DEF vars, StillAhead, Awaited, InPassing
<1>30. QED
  BY <1>1, <1>2, <1>3, <1>4, <1>5, <1>6, <1>7, <1>8, <1>9, <1>10, <1>11, <1>12, <1>13, <1>14,
     <1>15, <1>16, <1>17, <1>18, <1>19, <1>20, <1>21, <1>22, <1>23, <1>24, <1>25, <1>26,
     <1>27, <1>28, <1>29, <1>31, <1>32, <1>33
     DEF Next, Producer, Callback

\* Beyond its capacity the engine holds no more than the longest stale run it took for room
\* while the run was being passed over, and nothing where it wrote in no such moment; what it
\* writes to splice always fits the ring, whether the graph keeps up with it or not.
THEOREM HeldWithinCapacityAlways == Spec => []HeldWithinCapacity
<1>1. Spec => [](IInv /\ SpliceInv /\ RoomInv)
  BY IInvInit, IInvStep, SpliceInvInit, SpliceInvStep, RoomInvInit, RoomInvStep, PTL DEF Spec
<1>2. IInv /\ SpliceInv /\ RoomInv => HeldWithinCapacity
  <2> SUFFICES ASSUME IInv, SpliceInv, RoomInv, producing # "rendering", ~IsDiscarding
               PROVE  HeldFrames <= Capacity + surplus /\ Len(ring) <= Room
    BY DEF HeldWithinCapacity
  <2> DEFINE held  == IF Awaited THEN Stale(splicing) ELSE 0
             ahead == IF StillAhead THEN Stale(splicing) ELSE 0
  <2>1. /\ Len(ring) \in Nat /\ held \in Nat /\ ahead \in Nat /\ ahead <= held
        /\ Capacity \in Nat /\ surplus \in Nat
    BY LenProperties, StaleType, RingAssumption
       DEF IInv, TypeInv, TypeOK, FramesTyped, ProducerTyped, StillAhead
  <2>2. HeldFrames = Less(Len(ring), held)
    BY HeldIs DEF IInv
  <2>3. Len(ring) <= Room /\ Len(ring) <= Capacity + surplus + ahead
    BY DEF RoomInv
  <2> HIDE DEF held, ahead
  <2>4. QED
    BY <2>1, <2>2, <2>3 DEF Less
<1>3. QED
  BY <1>1, <1>2, PTL

-----------------------------------------------------------------------------
(* The order frames are heard in: where each frame in the ring plays, less *)
(* the stale run that will be passed over.                                 *)

\* The place in the song the next frame heard must play: the one after the last heard, or
\* the first of what was sought to.
Due == IF heard # <<>> /\ heard[1].epoch = applied THEN heard[1].plays + 1 ELSE 0

\* The frames a place in the ring lies behind a stale run that will be passed over.
Skipped(at) == IF Under # None /\ at >= Under.to THEN Stale(Under) ELSE 0

\* A frame plays as far past the one due as it lies behind it in the ring, less what will
\* have been passed over by then.
Placed == \A i \in 1..Len(ring) : ring[i].plays = Due + i - 1 - Skipped(read + i - 1)

\* With no seek waiting, the engine's count of what it spliced away is what the callback
\* has passed over, and the stale run it has yet to pass over.
CountedAway ==
  ~IsDiscarding => Due + splicedAway = read + (IF StillAhead THEN Stale(splicing) ELSE 0)

OrderInv ==
  /\ inOrder
  /\ heard # <<>> => heard[1].epoch <= applied
  /\ IsDiscarding => splicedAway = 0
  /\ producing = "rendering" => splicedAway <= splicing.at
  /\ CountedAway
  /\ Placed

LEMMA DueType == TypeInv => Due \in Nat
<1> SUFFICES ASSUME TypeInv PROVE Due \in Nat
  OBVIOUS
<1>1. CASE heard = <<>>
  BY <1>1 DEF Due
<1>2. CASE heard # <<>>
  <2>1. heard \in Seq(Frame)
    BY DEF TypeInv, TypeOK, FramesTyped
  <2>2. Len(heard) \in Nat /\ Len(heard) >= 1
    BY <1>2, <2>1, EmptySeq, LenProperties
  <2>3. heard[1] \in Frame
    BY <2>1, <2>2, ElementOfSeq
  <2>4. heard[1].plays \in Nat
    BY <2>3 DEF Frame
  <2>5. QED
    BY <2>4 DEF Due
<1>3. QED
  BY <1>1, <1>2

LEMMA SkippedType ==
  ASSUME TypeInv, NEW at \in Nat
  PROVE  Skipped(at) \in Nat
  BY UnderType DEF Skipped

LEMMA OrderInvInit == Init => OrderInv
<1> SUFFICES ASSUME Init PROVE OrderInv
  OBVIOUS
<1>1. ring = <<>> /\ Len(ring) = 0 /\ heard = <<>>
  BY EmptySeq DEF Init
<1>2. Placed
  BY <1>1 DEF Placed
<1>3. CountedAway
  BY <1>1 DEF Init, CountedAway, Due, StillAhead, Awaited
<1>4. QED
  BY <1>1, <1>2, <1>3 DEF Init, OrderInv, IsDiscarding

\* What is due at the back, counted from the front or from what was written.
LEMMA DueBehind ==
  ASSUME NEW due \in Nat, NEW before \in Nat, NEW held \in Nat, NEW away \in Nat,
         NEW late \in Nat, NEW all \in Nat,
         due + away = before + late, before + held = all
  PROVE  all - away = due + held - late
  OBVIOUS

\* A step that begins no splice, publishes none and picks none up leaves the one under way.
LEMMA UnderUntouched ==
  ASSUME UNCHANGED <<asked, spliceAt, spliceTo, splicesSeen, pending, splicing>>,
         producing' = "rendering" <=> producing = "rendering"
  PROVE  Under' = Under
  BY DEF Under, Noticed

\* A step that moves no frame and begins or passes over no splice.
LEMMA OrderUntouched ==
  ASSUME OrderInv,
         UNCHANGED <<ring, read, heard, inOrder, requested, applied, splicing, splicedAway>>,
         StillAhead' <=> StillAhead, Under' = Under,
         producing' = "rendering" => producing = "rendering"
  PROVE  OrderInv'
<1>1. Due' = Due /\ (IsDiscarding' <=> IsDiscarding)
  BY DEF Due, IsDiscarding
<1>2. Stale(splicing)' = Stale(splicing) /\ Stale(Under)' = Stale(Under)
  BY DEF Stale, Less
<1>3. CountedAway'
  BY <1>1, <1>2 DEF OrderInv, CountedAway
<1>4. \A at : Skipped(at)' = Skipped(at)
  BY <1>2 DEF Skipped
<1>5. Placed'
  BY <1>1, <1>4 DEF OrderInv, Placed
<1>6. QED
  BY <1>1, <1>3, <1>5 DEF OrderInv

\* What a run of frames the engine adds at the back plays.
LEMMA RenderedPlays ==
  ASSUME NEW first \in Nat, NEW frames \in Nat
  PROVE  \A i \in 1..frames : Rendered(first, frames)[i].plays = first + i - 1
  BY DEF Rendered

LEMMA Appended ==
  ASSUME NEW held \in Seq(Frame), NEW new \in Seq(Frame)
  PROVE  /\ Len(held \o new) = Len(held) + Len(new)
         /\ \A i \in 1..Len(held) + Len(new) :
              (held \o new)[i] = IF i <= Len(held) THEN held[i] ELSE new[i - Len(held)]
  BY ConcatProperties

\* A place counted from the back, as one counted from the front.
LEMMA FromTheBack ==
  ASSUME NEW due \in Nat, NEW held \in Nat, NEW away \in Nat, NEW i \in Nat
  PROVE  (due + held - away) + (i - held) - 1 = due + i - 1 - away
  OBVIOUS

\* Frames added at the back are heard in order if the first of them is the one due there.
LEMMA OrderWritten ==
  ASSUME TypeInv, OrderInv,
         UNCHANGED <<read, heard, inOrder, requested, applied, splicing, splicedAway>>,
         StillAhead' <=> StillAhead, Under' = Under,
         producing' = "rendering" => producing = "rendering",
         NEW first \in Nat, NEW frames \in Nat,
         ring' = ring \o Rendered(first, frames),
         Under # None => Under.to <= read + Len(ring),
         first = Due + Len(ring) - (IF Under # None THEN Stale(Under) ELSE 0)
  PROVE  OrderInv'
<1> DEFINE new == Rendered(first, frames)
<1>0. /\ ring \in Seq(Frame) /\ Len(ring) \in Nat /\ read \in Nat /\ Due \in Nat
      /\ Under.to \in Nat /\ Stale(Under) \in Nat
  BY LenProperties, DueType, UnderType DEF TypeInv, TypeOK, FramesTyped, ConsumerTyped
<1>1. /\ new \in Seq(Frame) /\ Len(new) = frames
      /\ \A i \in 1..frames : new[i].plays = first + i - 1
  BY RenderedType, RenderedPlays DEF TypeInv, TypeOK, AsksTyped
<1>2. ring' = ring \o new
  OBVIOUS
<1> HIDE DEF new
<1>3. /\ Len(ring') = Len(ring) + frames
      /\ \A i \in 1..Len(ring) + frames :
           ring'[i] = IF i <= Len(ring) THEN ring[i] ELSE new[i - Len(ring)]
  <2>1. /\ Len(ring \o new) = Len(ring) + Len(new)
        /\ \A i \in 1..Len(ring) + Len(new) :
             (ring \o new)[i] = IF i <= Len(ring) THEN ring[i] ELSE new[i - Len(ring)]
    <3>1. ring \in Seq(Frame) /\ new \in Seq(Frame)
      BY <1>0, <1>1, Zenon
    <3>2. QED
      BY <3>1, Appended, Zenon
  <2>2. QED
    BY <1>1, <1>2, <2>1
<1>4. Due' = Due /\ (IsDiscarding' <=> IsDiscarding)
  BY DEF Due, IsDiscarding
<1>5. Stale(splicing)' = Stale(splicing) /\ Stale(Under)' = Stale(Under)
  BY DEF Stale, Less
<1>6. CountedAway'
  BY <1>4, <1>5 DEF OrderInv, CountedAway
<1>7. \A at : Skipped(at)' = Skipped(at)
  BY <1>5 DEF Skipped
<1>8. ASSUME NEW i \in 1..Len(ring') PROVE ring'[i].plays = Due + i - 1 - Skipped(read + i - 1)
  <2>1. CASE i <= Len(ring)
    <3>1. i \in 1..Len(ring)
      BY <1>0, <1>3, <1>8, <2>1
    <3>2. ring[i].plays = Due + i - 1 - Skipped(read + i - 1)
      BY <3>1 DEF OrderInv, Placed
    <3>3. ring'[i] = ring[i]
      BY <1>0, <1>3, <1>8, <2>1
    <3>4. QED
      BY <3>2, <3>3
  <2>2. CASE ~(i <= Len(ring))
    <3>1. i \in Nat /\ i - Len(ring) \in 1..frames
      BY <1>0, <1>3, <1>8, <2>2
    <3>2. ring'[i].plays = first + (i - Len(ring)) - 1
      BY <1>0, <1>1, <1>3, <1>8, <2>2, <3>1
    <3>3. read + i - 1 >= read + Len(ring) /\ read + i - 1 \in Nat
      BY <1>0, <2>2, <3>1
    <3>4. Under # None => read + i - 1 >= Under.to
      BY <1>0, <3>3
    <3>5. Skipped(read + i - 1) = IF Under # None THEN Stale(Under) ELSE 0
      BY <3>4 DEF Skipped
    <3>6. \E away \in Nat : /\ Skipped(read + i - 1) = away
                            /\ first = Due + Len(ring) - away
      BY <1>0, <3>5
    <3>7. PICK away \in Nat : /\ Skipped(read + i - 1) = away
                             /\ first = Due + Len(ring) - away
      BY <3>6
    <3>8. (Due + Len(ring) - away) + (i - Len(ring)) - 1 = Due + i - 1 - away
      BY <1>0, <3>1, <3>7, FromTheBack
    <3>9. QED
      BY <3>2, <3>7, <3>8
  <2>3. QED
    BY <2>1, <2>2
<1>9. Placed'
  BY <1>4, <1>7, <1>8 DEF Placed
<1>10. QED
  BY <1>4, <1>6, <1>9 DEF OrderInv

\* The splice under way is the one the engine is in, while no seek waits.
LEMMA UnderIs ==
  ASSUME TypeInv, SeekInv, SpliceInv, ~IsDiscarding
  PROVE  /\ StillAhead => Under = splicing /\ splicing # None
         /\ ~StillAhead /\ producing # "rendering" => Under = None
<1>1. splicing = [at |-> splicing.at, to |-> splicing.to]
  BY DEF TypeInv, TypeOK, ProducerTyped, Spliced
<1>2. ASSUME StillAhead PROVE Under = splicing /\ splicing # None
  BY <1>1, <1>2 DEF SpliceInv, StillAhead, Under
<1>3. ASSUME ~StillAhead, producing # "rendering" PROVE Under = None
  <2>1. pending = None /\ Noticed
    BY <1>3 DEF SpliceInv, StillAhead
  <2>2. QED
    BY <1>3, <2>1 DEF Under
<1>4. QED
  BY <1>2, <1>3

\* Past the stale run what is in the ring lies past where it ends.
LEMMA PastWhatWasStale ==
  ASSUME NEW from \in Nat, NEW at \in Nat, NEW to \in Nat, NEW stale \in Nat, NEW i \in Nat,
         stale = to - at, at <= from, i >= 1
  PROVE  from + (stale + i) - 1 >= to
  OBVIOUS

LEMMA OrderInvStep == IInv /\ SpliceInv /\ TimeInv /\ OrderInv /\ [Next]_vars => OrderInv'
<1> SUFFICES ASSUME IInv, SpliceInv, TimeInv, OrderInv, [Next]_vars PROVE OrderInv'
  OBVIOUS
<1>i. /\ TypeInv /\ SeekInv /\ TypeOK /\ ring \in Seq(Frame)
      /\ requested \in Nat /\ applied \in Nat /\ written \in Nat /\ splicedAway \in Nat
      /\ splicing \in Spliced /\ splicing.at \in Nat /\ splicing.to \in Nat
      /\ read \in Nat /\ Len(ring) \in Nat /\ Due \in Nat /\ Stale(splicing) \in Nat
      /\ Under.to \in Nat /\ Stale(Under) \in Nat
  BY UnderType, DueType, StaleType, LenProperties
     DEF IInv, TypeInv, TypeOK, FramesTyped, AsksTyped, ProducerTyped, ConsumerTyped, Spliced
<1>r. ~IsDiscarding => read + Len(ring) = written
  BY <1>i DEF SeekInv, ReadAgrees
<1> USE DEF shared, atomics, requests, asks, graph, fader, producer, consumer, history, Turn
<1>1. CASE Write
  <2>1. PICK frames \in 1..FreeFrames : ring' = ring \o Rendered(HeardAs(written), frames)
    BY <1>1 DEF Write
  <2>2. /\ ~IsDiscarding /\ producing = "ready" /\ producing' = "ready"
        /\ UNCHANGED <<read, heard, inOrder, requested, applied, asked, taken, splicing,
                       splicedAway, spliceAt, spliceTo, splicesSeen, pending, pulling>>
    BY <1>1 DEF Write
  <2>3. frames \in Nat /\ HeardAs(written) \in Nat
    BY <1>i, <2>1, FreeFramesType, HeardAsType
  <2>4. Under' = Under /\ (StillAhead' <=> StillAhead)
    BY <2>2, UnderUntouched DEF StillAhead, Awaited, InPassing
  <2>5. /\ StillAhead => Under = splicing /\ Under # None
        /\ ~StillAhead => Under = None
    BY <1>i, <2>2, UnderIs
  <2>6. Under # None => Under.to + Stale(Under) <= written
    BY <1>r, <2>2 DEF TimeInv
  <2>7. Under # None => Under.to <= read + Len(ring)
    BY <1>i, <1>r, <2>2, <2>6
  <2>8. Due + splicedAway = read + (IF Under # None THEN Stale(Under) ELSE 0)
    BY <2>2, <2>5 DEF OrderInv, CountedAway
  <2>9. splicedAway <= written
    <3>1. CASE Under # None
      <4>1. read <= Under.to
        <5>1. read + Unwarned <= Under.to /\ Unwarned \in Nat
          BY <1>i, <3>1, RestType DEF TimeInv
        <5>2. QED
          BY <1>i, <5>1
      <4>2. QED
        BY <1>i, <2>6, <2>8, <3>1, <4>1
    <3>2. CASE Under = None
      BY <1>i, <1>r, <2>2, <2>8, <3>2
    <3>3. QED
      BY <3>1, <3>2
  <2>10. HeardAs(written) = written - splicedAway
    BY <1>i, <2>9 DEF HeardAs, Less
  <2>11. HeardAs(written) = Due + Len(ring) - (IF Under # None THEN Stale(Under) ELSE 0)
    <3> DEFINE late == IF Under # None THEN Stale(Under) ELSE 0
    <3>1. late \in Nat
      BY <1>i
    <3>2. Due + splicedAway = read + late /\ read + Len(ring) = written
      BY <1>r, <2>2, <2>8
    <3> HIDE DEF late
    <3>3. written - splicedAway = Due + Len(ring) - late
      BY <1>i, <3>1, <3>2, DueBehind
    <3>4. QED
      BY <2>10, <3>3 DEF late
  <2>12. QED
    BY <1>i, <2>1, <2>2, <2>3, <2>4, <2>7, <2>11, OrderWritten
<1>2. CASE Finish
  BY <1>i, <1>2, UnderUntouched, OrderUntouched DEF Finish, StillAhead, Awaited, InPassing
<1>7. CASE Pause
  BY <1>i, <1>7, UnderUntouched, OrderUntouched DEF Pause, StillAhead, Awaited, InPassing
<1>8. CASE FadeTowardsSleep
  BY <1>i, <1>8, UnderUntouched, OrderUntouched DEF FadeTowardsSleep, StillAhead, Awaited, InPassing
<1>9. CASE StandDown
  BY <1>i, <1>9, UnderUntouched, OrderUntouched DEF StandDown, StillAhead, Awaited, InPassing
<1>10. CASE FadeIn
  BY <1>i, <1>10, UnderUntouched, OrderUntouched DEF FadeIn, StillAhead, Awaited, InPassing
<1>11. CASE FadedIn
  BY <1>i, <1>11, UnderUntouched, OrderUntouched DEF FadedIn, StillAhead, Awaited, InPassing
<1>3. CASE DiscardBuffered
  <2>1. /\ splicedAway' = 0 /\ producing = "ready" /\ producing' # "rendering"
        /\ requested' = requested + 1 /\ ~IsDiscarding
        /\ UNCHANGED <<ring, read, heard, inOrder, applied, asked, spliceAt, spliceTo,
                       splicesSeen, pending>>
    BY <1>3 DEF DiscardBuffered
  <2>2. IsDiscarding'
    BY <1>i, <2>1 DEF SeekInv, IsDiscarding
  <2>3. Under' = Under /\ Due' = Due
    BY <2>1 DEF Under, Noticed, Due
  <2>4. \A at : Skipped(at)' = Skipped(at)
    BY <2>3 DEF Skipped, Stale, Less
  <2>5. Placed'
    BY <2>1, <2>3, <2>4 DEF OrderInv, Placed
  <2>6. QED
    BY <2>1, <2>2, <2>5 DEF OrderInv, CountedAway
<1>4. CASE BeginSplice
  <2>1. /\ ~IsDiscarding /\ ~IsSplicing /\ producing = "ready" /\ producing' = "rendering"
        /\ splicing' = [at |-> SplicePoint, to |-> written]
        /\ UNCHANGED <<ring, read, heard, inOrder, requested, applied, asked, taken,
                       splicedAway, splicesSeen, pending, written>>
    BY <1>4 DEF BeginSplice
  <2>2. splicing'.at = SplicePoint /\ splicing'.to = written
    BY <2>1
  <2>3. ~Awaited /\ ~StillAhead
    BY <2>1 DEF SpliceInv, IsSplicing, Awaited, StillAhead
  <2>4. ~StillAhead' /\ pending' = None /\ Noticed' /\ Due' = Due
    BY <2>1, <2>3 DEF SpliceInv, StillAhead, Awaited, Noticed, Due
  <2>5. Under = None /\ Under' = splicing'
    BY <1>i, <2>1, <2>3, <2>4, UnderIs DEF Under
  <2>6. Due + splicedAway = read
    BY <1>i, <2>1, <2>3 DEF OrderInv, CountedAway
  <2>7. CountedAway'
    BY <1>i, <2>1, <2>4, <2>6 DEF CountedAway
  <2>8. splicedAway' <= splicing'.at
    <3>1. SplicePoint \in Nat /\ read + pulled <= SplicePoint /\ pulled \in Nat
      BY <1>i, <2>1, BegunAhead DEF TypeOK, FaderTyped
    <3>2. QED
      BY <1>i, <2>1, <2>2, <2>6, <3>1
  <2>9. ASSUME NEW i \in 1..Len(ring)
        PROVE  ring[i].plays = Due + i - 1 - Skipped(read + i - 1)'
    <3>1. ring[i].plays = Due + i - 1 - Skipped(read + i - 1)
      BY DEF OrderInv, Placed
    <3>2. Skipped(read + i - 1) = 0
      BY <2>5 DEF Skipped
    <3>3. ~(read + i - 1 >= written)
      BY <1>i, <1>r, <2>1
    <3>4. Skipped(read + i - 1)' = 0
      BY <2>1, <2>2, <2>5, <3>3 DEF Skipped
    <3>5. QED
      BY <3>1, <3>2, <3>4
  <2>10. Placed'
    BY <2>1, <2>4, <2>9 DEF Placed
  <2>11. ~IsDiscarding'
    BY <2>1 DEF IsDiscarding
  <2>12. QED
    BY <2>1, <2>7, <2>8, <2>10, <2>11 DEF OrderInv
<1>5. CASE WriteSpliced
  <2> DEFINE first == HeardAs(splicing.at) + written - splicing.to
  <2>1. PICK frames \in 1..Less(Stale(splicing), written - splicing.to) :
          ring' = ring \o Rendered(first, frames)
    BY <1>5 DEF WriteSpliced
  <2>2. /\ producing = "rendering" /\ producing' = "rendering"
        /\ UNCHANGED <<read, heard, inOrder, requested, applied, asked, taken, splicing,
                       splicedAway, spliceAt, spliceTo, splicesSeen, pending, pulling>>
    BY <1>5 DEF WriteSpliced
  <2>3. ~IsDiscarding /\ ~StillAhead /\ Under = splicing /\ Under # None
    BY <1>i, <2>2, RenderedAlone DEF StillAhead
  <2>4. Under' = Under /\ (StillAhead' <=> StillAhead)
    BY <2>2, UnderUntouched DEF StillAhead, Awaited, InPassing
  <2>5. splicing.to <= written /\ splicing.at < splicing.to /\ splicedAway <= splicing.at
    BY <1>i, <2>2, <2>3 DEF TypeInv, RenderingAhead, SpliceInv, OrderInv
  <2>6. Less(Stale(splicing), written - splicing.to) \in Nat
    <3>1. written - splicing.to \in Nat
      BY <1>i, <2>5
    <3>2. QED
      BY <1>i, <3>1, LessType
  <2>7. frames \in Nat
    BY <2>1, <2>6
  <2>8. HeardAs(splicing.at) = splicing.at - splicedAway
    BY <1>i, <2>5 DEF HeardAs, Less
  <2>9. Stale(splicing) = splicing.to - splicing.at
    BY <1>i, <2>5 DEF Stale, Less
  <2>10. Due + splicedAway = read
    BY <1>i, <2>3 DEF OrderInv, CountedAway
  <2>11. first \in Nat /\ first = Due + Len(ring) - Stale(splicing)
    <3>1. read + Len(ring) = written
      BY <1>r, <2>3
    <3>2. written - splicedAway = Due + Len(ring)
      <4>1. written - splicedAway = Due + Len(ring) - 0
        BY <1>i, <2>10, <3>1, DueBehind
      <4>2. QED
        BY <1>i, <4>1
    <3>3. first = (splicing.at - splicedAway) + written - splicing.to
      BY <2>8
    <3> HIDE DEF first
    <3>4. first = (written - splicedAway) - (splicing.to - splicing.at)
      BY <1>i, <3>3
    <3>5. first = Due + Len(ring) - Stale(splicing)
      <4>1. first = (Due + Len(ring)) - (splicing.to - splicing.at)
        BY <3>2, <3>4
      <4>2. QED
        BY <1>i, <2>9, <4>1
    <3>6. first \in Nat
      BY <1>i, <2>5, <3>3
    <3>7. QED
      BY <3>5, <3>6
  <2> HIDE DEF first
  <2>12. Under.to <= read + Len(ring)
    BY <1>i, <1>r, <2>3, <2>5
  <2>13. first = Due + Len(ring) - (IF Under # None THEN Stale(Under) ELSE 0)
    BY <2>3, <2>11
  <2>14. QED
    BY <1>i, <2>1, <2>2, <2>4, <2>7, <2>11, <2>12, <2>13, OrderWritten
<1>6. CASE Splice
  <2>1. /\ producing = "rendering" /\ producing' = "ready" /\ asked' = asked + 1
        /\ spliceAt' = splicing.at /\ spliceTo' = splicing.to
        /\ splicedAway' = splicedAway + Stale(splicing)
        /\ UNCHANGED <<ring, splicesSeen, splicing, pending, read, heard, inOrder, requested,
                       applied, taken, pulling>>
    BY <1>6 DEF Splice
  <2>2. /\ ~IsDiscarding /\ Noticed /\ ~Awaited /\ ~StillAhead /\ ~InPassing
        /\ pending = None /\ Under = splicing
    BY <1>i, <2>1, RenderedAlone DEF SpliceInv, StillAhead
  <2>3. ~Noticed' /\ StillAhead'
    BY <1>i, <2>1, <2>2 DEF Noticed, StillAhead, Awaited, InPassing, TypeOK, AsksTyped
  <2>4. Under' = splicing
    <3>1. splicing = [at |-> splicing.at, to |-> splicing.to]
      BY <1>i DEF Spliced
    <3>2. QED
      BY <2>1, <2>2, <2>3, <3>1 DEF Under
  <2>5. Due' = Due /\ Stale(splicing)' = Stale(splicing) /\ (IsDiscarding' <=> IsDiscarding)
    BY <2>1 DEF Due, Stale, Less, IsDiscarding
  <2>6. \A at : Skipped(at)' = Skipped(at)
    BY <2>2, <2>4 DEF Skipped, Stale, Less
  <2>7. Placed'
    BY <2>1, <2>5, <2>6 DEF OrderInv, Placed
  <2>8. Due + splicedAway = read
    BY <1>i, <2>2 DEF OrderInv, CountedAway
  <2>9. CountedAway'
    BY <1>i, <2>1, <2>3, <2>5, <2>8 DEF CountedAway
  <2>10. QED
    BY <2>1, <2>2, <2>5, <2>7, <2>9 DEF OrderInv
<1>12. CASE Pull
  <2>1. /\ splicesSeen' = asked
        /\ pending' = IF ~Noticed THEN [at |-> spliceAt, to |-> spliceTo] ELSE pending
        /\ UNCHANGED <<ring, asked, spliceAt, spliceTo, splicing, read, producing, heard,
                       inOrder, requested, applied, splicedAway>>
        /\ StillAhead' <=> StillAhead
    BY <1>12 DEF Pull, Noticed, StillAhead, Awaited, InPassing
  <2>2. Under' = Under
    BY <1>i, <2>1, PickedUpUnder
  <2>3. QED
    BY <2>1, <2>2, OrderUntouched
<1>15. CASE PassOver
  <2> DEFINE stale == Least(Stale(pending), Len(ring))
  <2>1. /\ pending # None /\ read >= pending.at /\ pending' = None
        /\ ring' = SubSeq(ring, stale + 1, Len(ring)) /\ read' = read + stale
        /\ ~InPassing /\ InPassing'
        /\ UNCHANGED <<requested, applied, asked, splicing, splicesSeen, producing,
                       splicedAway, heard, inOrder>>
    BY <1>15 DEF PassOver, InPassing
  <2>2. /\ Under = pending /\ producing # "rendering" /\ Noticed
        /\ pending.at < pending.to /\ Stale(pending) <= Len(ring)
    BY <2>1, PickedUp DEF TimeInv
  <2>3. /\ pending.at \in Nat /\ pending.to \in Nat /\ Stale(pending) \in Nat
        /\ stale = Stale(pending) /\ Stale(pending) = pending.to - pending.at
    BY <1>i, <2>2 DEF TypeOK, ConsumerTyped, Spliced, Stale, Least, Less
  <2> HIDE DEF stale
  <2>4. /\ Len(ring') = Len(ring) - stale
        /\ \A i \in 1..Len(ring') : ring'[i] = ring[stale + i]
    BY <1>i, <2>1, <2>2, <2>3, TailOfRing
  <2>5. Under' = None
    BY <2>1, <2>2 DEF Under, Noticed
  <2>6. Due' = Due /\ (IsDiscarding' <=> IsDiscarding)
    BY <2>1 DEF Due, IsDiscarding
  <2>7. ASSUME NEW i \in 1..Len(ring')
        PROVE  ring'[i].plays = Due + i - 1
    <3>1. stale + i \in 1..Len(ring) /\ i \in Nat /\ i >= 1
      BY <1>i, <2>3, <2>4, <2>7
    <3>2. ring[stale + i].plays = Due + (stale + i) - 1 - Skipped(read + (stale + i) - 1)
      BY <3>1 DEF OrderInv, Placed
    <3>3. read + (stale + i) - 1 >= Under.to
      <4>1. /\ stale \in Nat /\ stale = pending.to - pending.at /\ read \in Nat
            /\ pending.at <= read
        BY <1>i, <2>1, <2>3
      <4>2. read + (stale + i) - 1 >= pending.to
        BY <2>3, <3>1, <4>1, PastWhatWasStale
      <4> QED BY <2>2, <4>2
    <3>4. Skipped(read + (stale + i) - 1) = stale
      BY <2>1, <2>2, <2>3, <3>3 DEF Skipped
    <3>5. QED
      <4>1. stale \in Nat
        BY <2>3
      <4>2. Due + (stale + i) - 1 - stale = Due + i - 1
        BY <1>i, <3>1, <4>1
      <4>3. QED
        BY <2>4, <2>7, <3>2, <3>4, <4>2
  <2>8. Placed'
    <3>1. \A at : Skipped(at)' = 0
      BY <2>5 DEF Skipped
    <3>2. ASSUME NEW i \in 1..Len(ring')
          PROVE  ring'[i].plays = Due' + i - 1 - Skipped(read + i - 1)'
      <4>1. ring'[i].plays = Due + i - 1
        BY <2>7
      <4>2. Skipped(read + i - 1)' = 0
        BY <3>1
      <4>3. i \in Nat
        BY <1>i, <2>3, <2>4
      <4>4. QED
        BY <1>i, <2>6, <4>1, <4>2, <4>3
    <3>3. QED
      BY <3>2 DEF Placed
  <2>9. CountedAway'
    <3>1. ASSUME ~IsDiscarding PROVE Due + splicedAway = read + stale /\ ~StillAhead'
      <4>1. StillAhead /\ pending = splicing
        BY <2>1, <2>2, <3>1 DEF SpliceInv, StillAhead
      <4>2. Due + splicedAway = read + Stale(splicing)
        BY <3>1, <4>1 DEF OrderInv, CountedAway
      <4>3. QED
        BY <2>1, <2>3, <4>1, <4>2 DEF StillAhead
    <3>2. QED
      BY <1>i, <2>1, <2>3, <2>6, <3>1 DEF CountedAway
  <2>10. QED
    BY <2>1, <2>2, <2>6, <2>8, <2>9 DEF OrderInv
<1>31. CASE TellItIsPassed
  <2>1. /\ InPassing /\ ~InPassing'
        /\ UNCHANGED <<ring, read, heard, inOrder, requested, applied, asked, splicing,
                       spliceAt, spliceTo, splicesSeen, pending, splicedAway, producing>>
    BY <1>31 DEF TellItIsPassed, InPassing
  <2>2. Under' = Under
    BY <2>1, UnderUntouched
  <2>3. ~StillAhead
    BY <2>1 DEF StillAhead
  <2>4. ASSUME ~IsDiscarding PROVE ~StillAhead'
    <3>1. Noticed /\ taken' = splicesSeen
      BY <1>31, <2>1, <2>4 DEF SpliceInv, TellItIsPassed
    <3>2. QED
      BY <2>1, <3>1 DEF StillAhead, Awaited, Noticed
  <2>5. CASE ~IsDiscarding
    BY <2>1, <2>2, <2>3, <2>4, <2>5, OrderUntouched
  <2>6. CASE IsDiscarding
    <3>1. Due' = Due /\ IsDiscarding' /\ \A at : Skipped(at)' = Skipped(at)
      BY <2>1, <2>2, <2>6 DEF Due, IsDiscarding, Skipped, Stale, Less
    <3>2. Placed' /\ CountedAway'
      BY <2>1, <3>1 DEF OrderInv, Placed, CountedAway
    <3>3. QED
      BY <2>1, <2>6, <3>2 DEF OrderInv
  <2>7. QED
    BY <2>5, <2>6
<1>32. CASE AskWhetherAudible
  BY <1>i, <1>32, UnderUntouched, OrderUntouched
     DEF AskWhetherAudible, StillAhead, Awaited, InPassing
<1>33. CASE NotAudible
  BY <1>i, <1>33, UnderUntouched, OrderUntouched DEF NotAudible, StillAhead, Awaited, InPassing
<1>16. CASE Take
  <2>1. PICK frames \in 1..Len(ring) :
          /\ ring' = SubSeq(ring, frames + 1, Len(ring))
          /\ heard' = <<ring[frames]>>
          /\ inOrder' = /\ inOrder
                        /\ Follows(heard, ring[1])
                        /\ \A i \in 2..frames : Follows(<<ring[i - 1]>>, ring[i])
          /\ read' = read + frames /\ left' = left - frames /\ frames <= left
          /\ pending # None => read + frames <= pending.at
    BY <1>i, <1>16, TakenShortOfTheSplice
  <2>2. /\ pulling \in {"fading", "taking"} /\ pulling \in Taking
        /\ UNCHANGED <<requested, applied, asked, spliceAt, spliceTo, taken, splicing,
                       splicesSeen, pending, producing, splicedAway, pulling>>
    BY <1>16 DEF Take, TakeInto, Taking
  <2>3. frames \in Nat /\ frames >= 1 /\ frames <= Len(ring)
    BY <1>i, <2>1
  <2>4. Under # None => read + frames <= Under.to
    <3>1. CASE pending = None
      <4>1. Unwarned = left /\ left \in Nat
        BY <1>i, <2>2, <3>1 DEF Unwarned, Rest, TypeOK, ConsumerTyped
      <4>2. Under # None => read + left <= Under.to
        BY <4>1 DEF TimeInv
      <4>3. QED
        BY <1>i, <2>1, <2>3, <4>1, <4>2
    <3>2. CASE pending # None
      <4>1. Under = pending /\ pending.at < pending.to /\ pending.at \in Nat
        BY <1>i, <3>2, PickedUp DEF TypeOK, ConsumerTyped, Spliced
      <4>2. QED
        BY <1>i, <2>1, <2>3, <3>2, <4>1
    <3>3. QED
      BY <3>1, <3>2
  <2>5. ASSUME NEW i \in 1..frames
        PROVE  ring[i].plays = Due + i - 1 /\ ring[i].epoch = applied
    <3>1. i \in 1..Len(ring) /\ i \in Nat /\ i >= 1 /\ i <= frames
      BY <1>i, <2>3, <2>5
    <3>2. ring[i].plays = Due + i - 1 - Skipped(read + i - 1) /\ ring[i].epoch = applied
      BY <1>i, <3>1 DEF OrderInv, Placed, SeekInv
    <3>3. Under # None => ~(read + i - 1 >= Under.to)
      BY <1>i, <2>3, <2>4, <3>1
    <3>4. Skipped(read + i - 1) = 0
      BY <3>3 DEF Skipped
    <3>5. QED
      BY <1>i, <3>1, <3>2, <3>4
  <2>6. Follows(heard, ring[1])
    <3>1. ring[1].plays = Due /\ ring[1].epoch = applied
      BY <1>i, <2>3, <2>5
    <3>2. QED
      BY <3>1 DEF Follows, Due
  <2>7. ASSUME NEW i \in 2..frames PROVE Follows(<<ring[i - 1]>>, ring[i])
    <3>1. i \in 1..frames /\ i - 1 \in 1..frames
      BY <2>3, <2>7
    <3>2. /\ ring[i].plays = Due + i - 1 /\ ring[i].epoch = applied
          /\ ring[i - 1].plays = Due + (i - 1) - 1 /\ ring[i - 1].epoch = applied
      BY <2>5, <3>1
    <3>3. ring[i].plays = ring[i - 1].plays + 1
      BY <1>i, <2>3, <2>7, <3>2
    <3>4. <<ring[i - 1]>>[1] = ring[i - 1] /\ <<ring[i - 1]>> # <<>>
      OBVIOUS
    <3>5. QED
      BY <3>2, <3>3, <3>4 DEF Follows
  <2>8. inOrder'
    BY <2>1, <2>6, <2>7 DEF OrderInv
  <2>9. heard' # <<>> /\ heard'[1] = ring[frames]
    BY <2>1
  <2>10. ring[frames].plays = Due + frames - 1 /\ ring[frames].epoch = applied
    BY <2>3, <2>5
  <2>11. Due' = Due + frames
    BY <1>i, <2>2, <2>3, <2>9, <2>10 DEF Due
  <2>12. /\ Len(ring') = Len(ring) - frames
         /\ \A i \in 1..Len(ring') : ring'[i] = ring[frames + i]
    BY <1>i, <2>1, <2>3, TailOfRing
  <2>13. Under' = Under /\ (IsDiscarding' <=> IsDiscarding) /\ (StillAhead' <=> StillAhead)
    BY <2>2 DEF Under, Noticed, IsDiscarding, StillAhead, Awaited, InPassing
  <2>14. /\ Stale(splicing)' = Stale(splicing)
         /\ \A at : (IF Under # None /\ at >= Under.to THEN Stale(Under) ELSE 0)'
                      = IF Under # None /\ at >= Under.to THEN Stale(Under) ELSE 0
    BY <2>2, <2>13 DEF Stale, Less
  <2>15. Placed'
    <3>1. ASSUME NEW i \in 1..Len(ring')
          PROVE  ring'[i].plays = Due' + i - 1 - Skipped(read + i - 1)'
      <4>1. frames + i \in 1..Len(ring) /\ i \in Nat
        BY <1>i, <2>3, <2>12, <3>1
      <4>2. ring[frames + i].plays
              = Due + (frames + i) - 1 - Skipped(read + (frames + i) - 1)
        BY <4>1 DEF OrderInv, Placed
      <4>3. read' + i - 1 = read + (frames + i) - 1
        BY <1>i, <2>1, <2>3, <4>1
      <4>4. Skipped(read + i - 1)' = Skipped(read + (frames + i) - 1)
        BY <2>13, <4>3 DEF Skipped, Stale, Less
      <4>5. Skipped(read + (frames + i) - 1) \in Nat
        <5>1. read + (frames + i) - 1 \in Nat
          BY <1>i, <2>3, <4>1
        <5>2. QED
          BY <1>i, <5>1, SkippedType
      <4>6. QED
        BY <1>i, <2>3, <2>11, <2>12, <3>1, <4>1, <4>2, <4>4, <4>5
    <3>2. QED
      BY <3>1 DEF Placed
  <2>16. CountedAway'
    <3> DEFINE late == IF StillAhead THEN Stale(splicing) ELSE 0
    <3>1. late \in Nat /\ late' = late
      BY <1>i, <2>13, <2>14
    <3>2. ~IsDiscarding => Due + splicedAway = read + late
      BY DEF OrderInv, CountedAway
    <3> HIDE DEF late
    <3>3. Due + splicedAway = read + late => (Due + frames) + splicedAway = (read + frames) + late
      BY <1>i, <2>3, <3>1
    <3>4. ~IsDiscarding' => Due' + splicedAway' = read' + late'
      BY <2>1, <2>2, <2>11, <2>13, <3>1, <3>2, <3>3
    <3>5. QED
      BY <3>4 DEF CountedAway, late
  <2>17. heard'[1].epoch <= applied'
    BY <1>i, <2>2, <2>9, <2>10
  <2>18. QED
    BY <2>2, <2>8, <2>13, <2>15, <2>16, <2>17 DEF OrderInv
<1>19. CASE Drain
  <2>1. IsDiscarding
    BY <1>i, <1>19 DEF Drain, SeekInv, IsDiscarding, Draining, TypeOK, ConsumerTyped
  <2>2. /\ ring' = <<>>
        /\ UNCHANGED <<requested, applied, producing, splicing, splicedAway, heard, inOrder>>
    BY <1>19 DEF Drain
  <2>3. Placed'
    BY <2>2, EmptySeq DEF Placed
  <2>4. IsDiscarding' /\ CountedAway'
    BY <2>1, <2>2 DEF IsDiscarding, CountedAway
  <2>5. QED
    BY <2>1, <2>2, <2>3, <2>4 DEF OrderInv
<1>20. CASE AnswerTheDiscard
  <2>1. /\ Draining /\ applied' = seen /\ taken' = splicesSeen
        /\ UNCHANGED <<ring, requested, asked, splicesSeen, producing, splicing, splicedAway,
                       read, heard, inOrder>>
    BY <1>20 DEF AnswerTheDiscard, Draining
  <2>2. seen = requested /\ IsDiscarding /\ ring = <<>> /\ read = 0 /\ producing # "rendering"
    BY <1>i, <2>1 DEF SeekInv
  <2>3. applied < requested /\ splicedAway = 0
    BY <2>2 DEF OrderInv, IsDiscarding
  <2>4. heard # <<>> => heard[1].epoch <= applied /\ heard[1].epoch \in Nat
    <3>1. ASSUME heard # <<>> PROVE heard[1] \in Frame
      <4>1. heard \in Seq(Frame)
        BY <1>i DEF TypeOK, FramesTyped
      <4>2. Len(heard) \in Nat /\ Len(heard) >= 1
        BY <3>1, <4>1, EmptySeq, LenProperties
      <4>3. QED
        BY <4>1, <4>2, ElementOfSeq
    <3>2. QED
      BY <3>1 DEF OrderInv, Frame
  <2>5. heard # <<>> => heard[1].epoch # applied' /\ heard[1].epoch <= applied'
    BY <1>i, <2>1, <2>2, <2>3, <2>4
  <2>6. Due' = 0
    BY <2>1, <2>5 DEF Due
  <2>7. ~IsDiscarding' /\ ~StillAhead'
    BY <1>i, <2>1, <2>2 DEF SpliceInv, IsDiscarding, StillAhead, Awaited, Noticed
  <2>8. CountedAway'
    BY <2>1, <2>2, <2>3, <2>6, <2>7 DEF CountedAway
  <2>9. Placed'
    BY <2>1, <2>2, EmptySeq DEF Placed
  <2>10. QED
    BY <2>1, <2>2, <2>5, <2>7, <2>8, <2>9 DEF OrderInv
<1>13. CASE FadeBeforeTheDiscard
  BY <1>i, <1>13, UnderUntouched, OrderUntouched DEF FadeBeforeTheDiscard, StillAhead, Awaited, InPassing
<1>14. CASE NothingToFade
  BY <1>i, <1>14, UnderUntouched, OrderUntouched DEF NothingToFade, StillAhead, Awaited, InPassing
<1>17. CASE Faded
  BY <1>i, <1>17, UnderUntouched, OrderUntouched DEF Faded, StillAhead, Awaited, InPassing
<1>18. CASE NothingToDiscard
  BY <1>i, <1>18, UnderUntouched, OrderUntouched DEF NothingToDiscard, StillAhead, Awaited, InPassing
<1>21. CASE Held
  BY <1>i, <1>21, UnderUntouched, OrderUntouched DEF Held, StillAhead, Awaited, InPassing
<1>22. CASE LeadIn
  BY <1>i, <1>22, UnderUntouched, OrderUntouched DEF LeadIn, StillAhead, Awaited, InPassing
<1>23. CASE Refilling
  BY <1>i, <1>23, UnderUntouched, OrderUntouched DEF Refilling, StillAhead, Awaited, InPassing
<1>24. CASE Hush
  BY <1>i, <1>24, UnderUntouched, OrderUntouched DEF Hush, StillAhead, Awaited, InPassing
<1>25. CASE Sound
  BY <1>i, <1>25, UnderUntouched, OrderUntouched DEF Sound, StillAhead, Awaited, InPassing
<1>26. CASE TakenWhole
  BY <1>i, <1>26, UnderUntouched, OrderUntouched DEF TakenWhole, StillAhead, Awaited, InPassing
<1>27. CASE GoQuiet
  BY <1>i, <1>27, UnderUntouched, OrderUntouched DEF GoQuiet, StillAhead, Awaited, InPassing
<1>28. CASE EndPull
  BY <1>i, <1>28, UnderUntouched, OrderUntouched DEF EndPull, StillAhead, Awaited, InPassing
<1>29. CASE UNCHANGED vars
  BY <1>i, <1>29, UnderUntouched, OrderUntouched DEF vars, StillAhead, Awaited, InPassing
<1>30. QED
  BY <1>1, <1>2, <1>3, <1>4, <1>5, <1>6, <1>7, <1>8, <1>9, <1>10, <1>11, <1>12, <1>13, <1>14,
     <1>15, <1>16, <1>17, <1>18, <1>19, <1>20, <1>21, <1>22, <1>23, <1>24, <1>25, <1>26,
     <1>27, <1>28, <1>29, <1>31, <1>32, <1>33
     DEF Next, Producer, Callback

\* While the engine renders a splice before the graph runs out of old frames, every frame is
\* heard once and in order from the first one after a seek, whatever seeks, splices and fades
\* the two threads interleave, and however late in its stale run a splice is passed over.
THEOREM HeardInOrderAlways ==
  ASSUME RendersInTime
  PROVE  Spec => []HeardInOrder
<1>1. Init => OrderInv
  BY OrderInvInit
<1>2. (IInv /\ SpliceInv /\ TimeInv) /\ OrderInv /\ [Next]_vars => OrderInv'
  BY OrderInvStep
<1>3. OrderInv => HeardInOrder
  BY DEF OrderInv, HeardInOrder
<1>4. Spec => [](IInv /\ SpliceInv /\ TimeInv)
  BY TimeInvHolds, RendersInTime
<1>5. QED
  BY <1>1, <1>2, <1>3, <1>4, PTL DEF Spec

=============================================================================
