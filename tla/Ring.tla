-------------------------------- MODULE Ring --------------------------------
(***************************************************************************)
(* The lock-free ring between the engine thread, which renders frames into *)
(* it, and the graph's real-time callback, which pulls them out            *)
(* (crates/resonate-engine/src/ring.rs).  The two share a queue of frames  *)
(* and a handful of atomics; nothing ever blocks.  The engine asks for a   *)
(* seek (a discard), re-renders what the ring holds (a splice), fades,     *)
(* leads in and ends; the callback answers each at a later pull.           *)
(*                                                                         *)
(* An action is the run of code between two accesses of shared state whose *)
(* order the other thread can tell; the accesses that are still taken      *)
(* together are named in README.  Not here: what the samples are, the gain *)
(* turned between two rows, the markers of DSD over PCM and the hold of a  *)
(* ring kept in step with another.                                         *)
(***************************************************************************)
EXTENDS Integers, Sequences, FiniteSets

CONSTANTS
  Capacity,       \* frames the ring holds when nothing is spliced
  Whole,          \* steps of the fade from silent to whole
  Overs,          \* frames a fade may be asked to last
  Fades,          \* the ring's words can be scaled (samples, not DoP)
  Pulls,          \* frames one callback may ask for
  Ahead,          \* SPLICED_AHEAD_AT_LEAST, in frames
  Blended,        \* SPLICE_BLENDED_OVER, in frames
  LeadIns,        \* lengths of lead-in the Bluetooth wake may ask for
  RendersInTime,  \* a splice is published before the graph runs out of old frames
  GraphPulls,     \* the graph pulls, and hears a fade out within quiet_within
  MaxWritten,     \* bound: frames written since the last discard
  MaxDiscards,    \* bound: seeks
  MaxSplices,     \* bound: splices
  MaxFades        \* bound: fades out asked for

ASSUME RingAssumption ==
  /\ Capacity \in Nat \ {0} /\ Whole \in Nat \ {0} /\ Ahead \in Nat /\ Blended \in Nat \ {0}
  /\ Overs \subseteq 1..Whole /\ Overs # {}
  /\ Pulls \subseteq Nat \ {0} /\ LeadIns \subseteq Nat
  /\ Fades \in BOOLEAN /\ RendersInTime \in BOOLEAN /\ GraphPulls \in BOOLEAN
  /\ MaxWritten \in Nat /\ MaxDiscards \in Nat /\ MaxSplices \in Nat /\ MaxFades \in Nat

VARIABLES
  \* shared: the queue of frames and the atomics
  ring, requested, applied, finished, asked, spliceAt, spliceTo, taken, pulled,
  lead, silenced, over, quiet, whole, active,
  \* the producer's own: the engine thread
  producing, written, splicing, splicedAway, playing, fadesAsked,
  \* the consumer's own: the graph's callback
  pulling, wanted, left, hushing, seen, splicesSeen, pending, level, read, silent,
  leading,
  \* history: the frame the device was handed last, none before the first; whether every
  \* frame so far followed the one before it; the longest stale run the engine took for
  \* room while it was being passed over; and whether whole was loaded amid a seek or in a
  \* pull that hushes
  heard, inOrder, surplus, amid

requests == <<requested, applied, finished>>
asks     == <<asked, spliceAt, spliceTo, taken>>
graph    == <<pulled, active>>
fader    == <<lead, silenced, over, quiet, whole>>
atomics  == <<requests, asks, graph, fader>>
shared   == <<ring, atomics>>
producer == <<producing, written, splicing, splicedAway, playing, fadesAsked>>
consumer == <<pulling, wanted, left, hushing, seen, splicesSeen, pending, level, read,
              silent, leading>>
history  == <<heard, inOrder, surplus, amid>>
vars     == <<shared, producer, consumer, history>>

\* A frame remembers the seek it was rendered after and the place in the song it
\* plays, counted from where that seek landed.
Frame   == [epoch : Nat, plays : Nat]
Spliced == [at : Nat, to : Nat]
None    == [at |-> 0, to |-> 0]
Silent  == 0
Prime   == Capacity \div 2
Room    == 2 * Capacity

Least(a, b)    == IF a < b THEN a ELSE b
Greatest(a, b) == IF a < b THEN b ELSE a
Less(a, b)     == IF a < b THEN 0 ELSE a - b

Stale(spliced) == Less(spliced.to, spliced.at)

-----------------------------------------------------------------------------
(* What the producer can tell of the ring.                                 *)

IsDiscarding == applied < requested
IsSplicing   == splicing # None /\ taken # asked
Occupied     == Len(ring)
HeldFrames   == Less(Occupied, IF IsSplicing THEN Stale(splicing) ELSE 0)
RoomFrames   == Room - Occupied
\* Altered: what is held is not counted against the capacity.
FreeFramesOfAllTheRoom == RoomFrames

FreeFrames   == Least(Less(Capacity, HeldFrames), RoomFrames)
ReadSoFar    == Less(written, Occupied)
HeardAs(at)  == Less(at, splicedAway)

\* The head of the ring is past the stale run, and taken does not say so yet.
InPassing == pulling \in {"fading_past", "taking_past"}

\* The frame a splice would begin at: no nearer than two of the graph's pulls.
SplicePoint == ReadSoFar + Greatest(Ahead, 2 * pulled)

Rendered(first, frames) ==
  [i \in 1..frames |-> [epoch |-> requested, plays |-> first + i - 1]]

-----------------------------------------------------------------------------
(* The engine thread.                                                      *)

\* write_from: as much as fits, and nothing while a discard waits.
Write ==
  /\ producing = "ready" /\ ~IsDiscarding /\ ~finished
  /\ \E frames \in 1..FreeFrames :
       /\ written + frames <= MaxWritten
       /\ ring' = ring \o Rendered(HeardAs(written), frames)
       /\ written' = written + frames
  /\ surplus' = IF InPassing THEN Greatest(surplus, Stale(splicing)) ELSE surplus
  /\ UNCHANGED <<atomics, producing, splicing, splicedAway, playing, fadesAsked, consumer,
                 heard, inOrder, amid>>

\* end: the song's last frame is in the ring.
Finish ==
  /\ producing = "ready" /\ ~IsDiscarding /\ ~finished
  /\ finished' = TRUE
  /\ UNCHANGED <<ring, requested, applied, asks, graph, fader, producer, consumer, history>>

\* Altered: the count of frames written goes on across the seek.
DiscardBufferedCountingOn ==
  /\ producing = "ready" /\ playing /\ ~IsDiscarding /\ ~finished
  /\ requested < MaxDiscards
  /\ requested' = requested + 1
  /\ splicing' = None /\ splicedAway' = 0
  /\ producing' = IF silenced THEN "lifting" ELSE "ready"
  /\ UNCHANGED <<ring, applied, finished, asks, graph, fader, written, playing, fadesAsked,
                 consumer, history>>

\* A seek in place, on a live stream that discards nothing yet: discard_buffered, and a
\* fade towards sleep is lifted.
DiscardBuffered ==
  /\ producing = "ready" /\ playing /\ ~IsDiscarding /\ ~finished
  /\ requested < MaxDiscards
  /\ requested' = requested + 1
  /\ written' = 0 /\ splicing' = None /\ splicedAway' = 0
  /\ producing' = IF silenced THEN "lifting" ELSE "ready"
  /\ UNCHANGED <<ring, applied, finished, asks, graph, fader, playing, fadesAsked,
                 consumer, history>>

\* Altered: a splice may begin where nothing is left to blend over.
BeginSpliceAnywhere ==
  /\ Fades
  /\ producing = "ready" /\ ~IsDiscarding /\ ~IsSplicing /\ ~finished
  /\ asked < MaxSplices
  /\ written - SplicePoint <= RoomFrames
  /\ splicing' = [at |-> SplicePoint, to |-> written]
  /\ producing' = "rendering"
  /\ UNCHANGED <<ring, atomics, written, splicedAway, playing, fadesAsked, consumer, history>>

\* splice_the_back: a point is found, and what was entered from there is rendered
\* again behind what the ring holds ...
BeginSplice ==
  /\ Fades
  /\ producing = "ready" /\ ~IsDiscarding /\ ~IsSplicing /\ ~finished
  /\ asked < MaxSplices
  /\ SplicePoint + Blended <= written
  /\ written - SplicePoint <= RoomFrames
  /\ splicing' = [at |-> SplicePoint, to |-> written]
  /\ producing' = "rendering"
  /\ UNCHANGED <<ring, atomics, written, splicedAway, playing, fadesAsked, consumer, history>>

\* ... a block at a time ...
WriteSpliced ==
  /\ producing = "rendering"
  /\ \E frames \in 1..Less(Stale(splicing), written - splicing.to) :
       /\ ring' = ring \o Rendered(HeardAs(splicing.at) + written - splicing.to, frames)
       /\ written' = written + frames
  /\ UNCHANGED <<atomics, producing, splicing, splicedAway, playing, fadesAsked, consumer,
                 history>>

\* ... and only then is the callback told.
Splice ==
  /\ producing = "rendering"
  /\ written - splicing.to = Stale(splicing)
  /\ producing' = "ready"
  /\ spliceAt' = splicing.at /\ spliceTo' = splicing.to
  /\ asked' = asked + 1
  /\ splicedAway' = splicedAway + Stale(splicing)
  /\ UNCHANGED <<ring, requests, taken, graph, fader, written, splicing, playing,
                 fadesAsked, consumer, history>>

\* pause: the fade is asked for; a ring that does not sound stands down at once.
Pause ==
  /\ producing = "ready" /\ playing /\ fadesAsked < MaxFades
  /\ playing' = FALSE
  /\ fadesAsked' = fadesAsked + 1
  /\ \E frames \in Overs : over' = frames
  /\ silenced' = TRUE
  /\ active' \in IF quiet THEN {FALSE} ELSE {TRUE, GraphPulls}
  /\ UNCHANGED <<ring, requests, asks, pulled, lead, quiet, whole, producing, written,
                 splicing, splicedAway, consumer, history>>

\* fade_toward_sleep asks is_audible of what sounds: whole is loaded ...
AskWhetherAudible ==
  /\ producing = "ready" /\ playing /\ Fades /\ fadesAsked < MaxFades
  /\ ~quiet /\ ~silenced /\ whole
  /\ producing' = "asking"
  /\ amid' = (IsDiscarding \/ hushing)
  /\ UNCHANGED <<shared, written, splicing, splicedAway, playing, fadesAsked, consumer,
                 heard, inOrder, surplus>>

\* ... and only then the seeks answered: with one waiting, nothing is faded ...
NotAudible ==
  /\ producing = "asking" /\ IsDiscarding
  /\ producing' = "ready"
  /\ UNCHANGED <<shared, written, splicing, splicedAway, playing, fadesAsked, consumer,
                 history>>

\* ... and with none, the fade is asked for while the ring plays on.
FadeTowardsSleep ==
  /\ producing = "asking" /\ ~IsDiscarding
  /\ producing' = "ready"
  /\ fadesAsked' = fadesAsked + 1
  /\ \E frames \in Overs : over' = frames
  /\ silenced' = TRUE
  /\ UNCHANGED <<ring, requests, asks, graph, lead, quiet, whole, written, splicing,
                 splicedAway, playing, consumer, history>>

NothingSounds == ring = <<>> \/ silent \/ lead > 0

\* Altered: only a ring that says it is quiet stands down.
StandDownOnceQuiet ==
  /\ producing = "ready" /\ ~playing /\ active
  /\ quiet
  /\ active' = FALSE
  /\ UNCHANGED <<ring, requests, asks, pulled, fader, producer, consumer, history>>

\* finish_fading: a paused stream stands down once it has gone quiet, or once it should
\* have: quiet_within runs out on a graph that has nothing left to fade.
StandDown ==
  /\ producing = "ready" /\ ~playing /\ active
  /\ quiet \/ NothingSounds \/ ~GraphPulls
  /\ active' = FALSE
  /\ UNCHANGED <<ring, requests, asks, pulled, fader, producer, consumer, history>>

\* fade_in, for play and for a sleep fade lifted: quiet is stored before silenced ...
FadeIn ==
  /\ producing \in {"ready", "lifting"} /\ (silenced \/ quiet)
  /\ \E frames \in Overs : over' = frames
  /\ quiet' = FALSE
  /\ producing' = "fading_in"
  /\ UNCHANGED <<ring, requests, asks, graph, lead, silenced, whole, written, splicing,
                 splicedAway, playing, fadesAsked, consumer, history>>

\* ... and play wakes a link that fell asleep before it sets the stream active.
FadedIn ==
  /\ producing = "fading_in"
  /\ silenced' = FALSE
  /\ playing' = TRUE
  /\ lead' \in IF active THEN {lead} ELSE LeadIns \union {lead}
  /\ active' = TRUE
  /\ producing' = "ready"
  /\ UNCHANGED <<ring, requests, asks, pulled, over, quiet, whole, written, splicing,
                 splicedAway, fadesAsked, consumer, history>>

Producer ==
  \/ Write \/ Finish \/ DiscardBuffered \/ BeginSplice \/ WriteSpliced \/ Splice
  \/ Pause \/ AskWhetherAudible \/ NotAudible \/ FadeTowardsSleep
  \/ StandDown \/ FadeIn \/ FadedIn

-----------------------------------------------------------------------------
(* The graph's callback.                                                   *)

\* The part of the fade one frame takes, and the frames a fade from here has left.
Step              == Whole \div over
\* Altered: one frame short of silence.
FramesUntilAlmostSilent == (level - 1) \div Step

FramesUntilSilent == (level + Step - 1) \div Step

AvailableFrames == Less(Len(ring), Stale(pending))

Turn(from, to) == /\ pulling = from
                  /\ pulling' = to

\* pulled begins: the graph's pull is noted and a splice looked for.
Pull ==
  /\ active /\ Turn("idle", "pulled")
  /\ \E frames \in Pulls :
       /\ RendersInTime /\ producing = "rendering" => read + frames <= splicing.to
       /\ wanted' = frames /\ pulled' = frames
  /\ hushing' = FALSE
  /\ splicesSeen' = asked
  /\ pending' = IF asked # splicesSeen THEN [at |-> spliceAt, to |-> spliceTo] ELSE pending
  /\ UNCHANGED <<ring, requests, asks, active, fader, producer, left, seen, level, read,
                 silent, leading, history>>

\* discard_is_asked and fades_before_the_discard: what sounds is faded first.
FadeBeforeTheDiscard ==
  /\ requested # seen /\ Fades /\ ~silent /\ level > Silent /\ AvailableFrames > 0
  /\ Turn("pulled", "fading")
  /\ left' = Least(Least(wanted, AvailableFrames), FramesUntilSilent)
  /\ UNCHANGED <<shared, producer, wanted, hushing, seen, splicesSeen, pending, level, read,
                 silent, leading, history>>

\* Altered: only what was faded is discarded.
NothingToFadeNorDiscard ==
  /\ ~(requested # seen /\ Fades /\ ~silent /\ level > Silent /\ AvailableFrames > 0)
  /\ Turn("pulled", "held")
  /\ UNCHANGED <<shared, producer, wanted, left, hushing, seen, splicesSeen, pending, level,
                 read, silent, leading, history>>

NothingToFade ==
  /\ ~(requested # seen /\ Fades /\ ~silent /\ level > Silent /\ AvailableFrames > 0)
  /\ Turn("pulled", "discarding")
  /\ UNCHANGED <<shared, producer, wanted, left, hushing, seen, splicesSeen, pending, level,
                 read, silent, leading, history>>

\* Altered: a splice reached late is picked up where its stale run ends.
PassOverToItsEnd ==
  /\ pulling \in {"fading", "taking"} /\ pending # None /\ read >= pending.at
  /\ LET stale == Least(Less(pending.to, read), Len(ring)) IN
       /\ ring' = SubSeq(ring, stale + 1, Len(ring))
       /\ read' = read + stale
  /\ pending' = None
  /\ pulling' = IF pulling = "fading" THEN "fading_past" ELSE "taking_past"
  /\ UNCHANGED <<atomics, producer, wanted, left, hushing, seen, splicesSeen, level, silent,
                 leading, history>>

\* pass_over_what_was_spliced_away: reached or passed, the stale run leaves the ring ...
PassOver ==
  /\ pulling \in {"fading", "taking"} /\ pending # None /\ read >= pending.at
  /\ LET stale == Least(Stale(pending), Len(ring)) IN
       /\ ring' = SubSeq(ring, stale + 1, Len(ring))
       /\ read' = read + stale
  /\ pending' = None
  /\ pulling' = IF pulling = "fading" THEN "fading_past" ELSE "taking_past"
  /\ UNCHANGED <<atomics, producer, wanted, left, hushing, seen, splicesSeen, level, silent,
                 leading, history>>

\* ... and only then is the engine told that it has.
TellItIsPassed ==
  /\ \/ Turn("fading_past", "fading") \/ Turn("taking_past", "taking")
  /\ taken' = splicesSeen
  /\ UNCHANGED <<ring, requests, asked, spliceAt, spliceTo, graph, fader, producer, wanted,
                 left, hushing, seen, splicesSeen, pending, level, read, silent, leading,
                 history>>

FramesBeforeTheSplice == IF pending = None THEN left ELSE Least(Less(pending.at, read), left)

Toward(from, to, frames) ==
  IF to > from THEN Least(from + frames * Step, to) ELSE Greatest(Less(from, frames * Step), to)

\* Every frame follows the one before it, from the first frame of what was sought to.
Follows(before, frame) ==
  IF before # <<>> /\ before[1].epoch = frame.epoch
  THEN frame.plays = before[1].plays + 1
  ELSE frame.plays = 0

\* pop_partial_slice and shape: one run of frames up to the splice, at the level the
\* fade has reached.
TakeInto(target) ==
  /\ ~(pending # None /\ read >= pending.at)
  /\ LET frames == Least(FramesBeforeTheSplice, Len(ring)) IN
       /\ frames > 0
       /\ heard' = <<ring[frames]>>
       /\ inOrder' = /\ inOrder
                     /\ Follows(heard, ring[1])
                     /\ \A i \in 2..frames : Follows(<<ring[i - 1]>>, ring[i])
       /\ ring' = SubSeq(ring, frames + 1, Len(ring))
       /\ read' = read + frames
       /\ left' = left - frames
       /\ level' = IF Fades THEN Toward(level, target, frames) ELSE level
  /\ UNCHANGED <<atomics, producer, pulling, wanted, hushing, seen, splicesSeen, pending,
                 silent, leading, surplus, amid>>

Take ==
  \/ pulling = "fading" /\ TakeInto(Silent)
  \/ pulling = "taking" /\ TakeInto(IF hushing THEN Silent ELSE Whole)

TookAll == ~(pending # None /\ read >= pending.at) /\ (left = 0 \/ ring = <<>>)

\* fade_into_the_discard ends: the discard is applied once nothing sounds, and put off
\* to the next pull otherwise.
Faded ==
  /\ TookAll
  /\ Turn("fading", IF level = Silent \/ AvailableFrames = 0 THEN "faded" ELSE "ending")
  /\ UNCHANGED <<shared, producer, wanted, left, hushing, seen, splicesSeen, pending, level,
                 read, silent, leading, history>>

\* apply_discard: the ring is drained and what was asked of it forgotten, and only then
\* is the discard answered.
NothingToDiscard ==
  /\ requested = seen
  /\ Turn("discarding", "held")
  /\ UNCHANGED <<shared, producer, wanted, left, hushing, seen, splicesSeen, pending, level,
                 read, silent, leading, history>>

\* Altered: what waits behind a splice is left in the ring.
DrainWhatIsAvailable ==
  /\ requested # seen
  /\ \/ Turn("discarding", "drained") \/ Turn("faded", "faded_and_drained")
  /\ seen' = requested
  /\ level' = IF Fades THEN Silent ELSE level
  /\ silent' = TRUE
  /\ ring' = SubSeq(ring, AvailableFrames + 1, Len(ring)) /\ read' = 0
  /\ splicesSeen' = asked /\ pending' = None
  /\ UNCHANGED <<atomics, producer, wanted, left, hushing, leading, history>>

Drain ==
  /\ requested # seen
  /\ \/ Turn("discarding", "drained") \/ Turn("faded", "faded_and_drained")
  /\ seen' = requested
  /\ level' = IF Fades THEN Silent ELSE level
  /\ silent' = TRUE
  /\ ring' = <<>> /\ read' = 0
  /\ splicesSeen' = asked /\ pending' = None
  /\ UNCHANGED <<atomics, producer, wanted, left, hushing, leading, history>>

\* Altered: the level is taken to be as whole as it was before the seek.
AnswerTheDiscardAsWhole ==
  /\ \/ Turn("drained", "held") \/ Turn("faded_and_drained", "ending")
  /\ taken' = splicesSeen /\ applied' = seen
  /\ UNCHANGED <<ring, requested, finished, asked, spliceAt, spliceTo, graph, fader,
                 producer, wanted, left, hushing, seen, splicesSeen, pending, level, read,
                 silent, leading, history>>

AnswerTheDiscard ==
  /\ \/ Turn("drained", "held") \/ Turn("faded_and_drained", "ending")
  /\ taken' = splicesSeen /\ whole' = FALSE /\ applied' = seen
  /\ UNCHANGED <<ring, requested, finished, asked, spliceAt, spliceTo, graph, lead, silenced,
                 over, quiet, producer, wanted, left, hushing, seen, splicesSeen, pending,
                 level, read, silent, leading, history>>

\* held: a lead in is loaded, and what this pull took of it stored.
Held ==
  /\ Turn("held", IF lead = 0 THEN "refilling" ELSE "leading_in")
  /\ leading' = lead
  /\ UNCHANGED <<shared, producer, wanted, left, hushing, seen, splicesSeen, pending, level,
                 read, silent, history>>

LeadIn ==
  /\ Turn("leading_in", "ending")
  /\ lead' = Less(leading, wanted) /\ leading' = 0
  /\ UNCHANGED <<ring, requests, asks, graph, silenced, over, quiet, whole, producer, wanted,
                 left, hushing, seen, splicesSeen, pending, level, read, silent, history>>

\* Altered: the song's end is seen only once the ring has run out.
RefillingUntilPrimedOrSpent ==
  LET waits == silent /\ AvailableFrames < Prime /\ ~(finished /\ AvailableFrames = 0) IN
  /\ Turn("refilling", IF waits THEN "ending" ELSE "sounding")
  /\ silent' = waits
  /\ UNCHANGED <<shared, producer, wanted, left, hushing, seen, splicesSeen, pending, level,
                 read, leading, history>>

\* refilling: a ring that was drained sounds again once it is primed, or the song has
\* ended before it could be.
Refilling ==
  LET waits == silent /\ AvailableFrames < Prime /\ ~finished IN
  /\ Turn("refilling", IF waits THEN "ending" ELSE "sounding")
  /\ silent' = waits
  /\ UNCHANGED <<shared, producer, wanted, left, hushing, seen, splicesSeen, pending, level,
                 read, leading, history>>

\* silenced is loaded: what is silent already has gone quiet, and the rest is taken.
Hush ==
  /\ silenced /\ (~Fades \/ level = Silent)
  /\ Turn("sounding", "quiet")
  /\ hushing' = TRUE
  /\ UNCHANGED <<shared, producer, wanted, left, seen, splicesSeen, pending, level, read,
                 silent, leading, history>>

Sound ==
  /\ ~(silenced /\ (~Fades \/ level = Silent))
  /\ Turn("sounding", "taking")
  /\ hushing' = silenced
  /\ left' = LET most == IF silenced THEN FramesUntilSilent ELSE wanted
             IN  Least(Least(wanted, AvailableFrames), most)
  /\ UNCHANGED <<shared, producer, wanted, seen, splicesSeen, pending, level, read, silent,
                 leading, history>>

TakenWhole ==
  /\ TookAll
  /\ Turn("taking", IF hushing /\ level = Silent THEN "quiet" ELSE "ending")
  /\ UNCHANGED <<shared, producer, wanted, left, hushing, seen, splicesSeen, pending, level,
                 read, silent, leading, history>>

GoQuiet ==
  /\ Turn("quiet", "ending")
  /\ quiet' = TRUE
  /\ UNCHANGED <<ring, requests, asks, graph, lead, silenced, over, whole, producer, wanted,
                 left, hushing, seen, splicesSeen, pending, level, read, silent, leading,
                 history>>

\* filled_from ends: whether what sounds is whole is stored for the engine to read.
EndPull ==
  /\ Turn("ending", "idle")
  /\ whole' = (level >= Whole)
  /\ UNCHANGED <<ring, requests, asks, graph, lead, silenced, over, quiet, producer, wanted,
                 left, hushing, seen, splicesSeen, pending, level, read, silent, leading,
                 history>>

Callback ==
  \/ FadeBeforeTheDiscard \/ NothingToFade \/ PassOver \/ TellItIsPassed \/ Take \/ Faded
  \/ NothingToDiscard \/ Drain \/ AnswerTheDiscard \/ Held \/ LeadIn \/ Refilling
  \/ Hush \/ Sound \/ TakenWhole \/ GoQuiet \/ EndPull

-----------------------------------------------------------------------------
\* ring: the level enters whole or, for a stream faded in, silent.
Init ==
  /\ ring = <<>>
  /\ requested = 0 /\ applied = 0 /\ finished = FALSE
  /\ asked = 0 /\ spliceAt = 0 /\ spliceTo = 0 /\ taken = 0
  /\ pulled = 0 /\ active = TRUE
  /\ lead = 0 /\ silenced = FALSE /\ over \in Overs /\ quiet = FALSE /\ whole = FALSE
  /\ producing = "ready" /\ written = 0 /\ splicing = None /\ splicedAway = 0
  /\ playing = TRUE /\ fadesAsked = 0
  /\ pulling = "idle" /\ wanted = 0 /\ left = 0 /\ hushing = FALSE
  /\ seen = 0 /\ splicesSeen = 0 /\ pending = None
  /\ level \in IF Fades THEN {Silent, Whole} ELSE {Whole}
  /\ read = 0 /\ silent = FALSE /\ leading = 0
  /\ heard = <<>> /\ inOrder = TRUE /\ surplus = 0 /\ amid = FALSE

Next == Producer \/ Pull \/ Callback

\* The engine's thread runs its loop, the graph calls back an active stream, and a
\* callback that began returns.  What the listener asks for is never fair.
Fairness ==
  /\ WF_vars(Write) /\ WF_vars(Finish)
  /\ WF_vars(WriteSpliced \/ Splice) /\ WF_vars(producing # "ready" /\ (FadeIn \/ FadedIn))
  /\ WF_vars(NotAudible \/ FadeTowardsSleep)
  /\ WF_vars(StandDown)
  /\ WF_vars(Pull) /\ WF_vars(Callback)

Spec == Init /\ [][Next]_vars /\ Fairness

-----------------------------------------------------------------------------
FramesTyped ==
  /\ ring \in Seq(Frame) /\ heard \in Seq(Frame) /\ inOrder \in BOOLEAN
  /\ surplus \in Nat /\ amid \in BOOLEAN

AsksTyped ==
  /\ requested \in Nat /\ applied \in Nat /\ finished \in BOOLEAN
  /\ asked \in Nat /\ spliceAt \in Nat /\ spliceTo \in Nat /\ taken \in Nat

FaderTyped ==
  /\ pulled \in Nat /\ active \in BOOLEAN
  /\ lead \in Nat /\ silenced \in BOOLEAN /\ over \in Overs /\ quiet \in BOOLEAN
  /\ whole \in BOOLEAN

ProducerTyped ==
  /\ producing \in {"ready", "rendering", "asking", "lifting", "fading_in"}
  /\ written \in Nat /\ splicing \in Spliced /\ splicedAway \in Nat
  /\ playing \in BOOLEAN /\ fadesAsked \in Nat

ConsumerTyped ==
  /\ pulling \in {"idle", "pulled", "fading", "fading_past", "faded", "faded_and_drained",
                  "discarding", "drained", "held", "leading_in", "refilling", "sounding",
                  "taking", "taking_past", "quiet", "ending"}
  /\ wanted \in Nat /\ left \in Nat /\ hushing \in BOOLEAN
  /\ seen \in Nat /\ splicesSeen \in Nat /\ pending \in Spliced
  /\ level \in 0..Whole /\ read \in Nat /\ silent \in BOOLEAN /\ leading \in Nat

TypeOK == FramesTyped /\ AsksTyped /\ FaderTyped /\ ProducerTyped /\ ConsumerTyped

\* Once a seek is answered, nothing rendered before it is heard: what the device is
\* handed was rendered after the last seek the engine was told of (apply_discard drains
\* before it answers, write_from waits for the answer).
StaleNeverHeard == [][heard' # heard => heard'[1].epoch = applied]_vars

\* Every frame is heard once and in order, from the first one rendered after a seek,
\* across splices taken on time or late (splice, pass_over_what_was_spliced_away).
HeardInOrder == inOrder

\* With no seek waiting, what the engine reckons the graph has read is what the graph
\* has read: splice_point and the position shown rest on it.
ReadAgrees == ~IsDiscarding => read + Len(ring) = written

\* A splice the graph has not reached lies wholly ahead of what it has read, and what
\* stands in for it is in the ring already: passing over it leaves no hole.
SpliceLandsWhole ==
  ~IsDiscarding /\ pending # None =>
    /\ pending.at < pending.to
    /\ read <= pending.to
    /\ Stale(pending) <= Len(ring)

\* The engine holds more than the capacity only where it wrote while a stale run was being
\* passed over, and then by no more than that run: held_frames takes a run away from what
\* is held once for as long as it is in the ring, and once too often between the head that
\* is committed and taken that is stored.  What it holds always fits the ring.
HeldWithinCapacity ==
  producing # "rendering" /\ ~IsDiscarding =>
    HeldFrames <= Capacity + surplus /\ Len(ring) <= Room

\* Until the engine acts on it, the whole level it loaded is the level there is, unless a
\* seek was waiting when it was loaded or a fade out was running its course: is_audible
\* is asked of a level that only a seek or a fade takes away.
AudibleMeansWhole == producing = "asking" /\ ~amid => level = Whole

\* A seek a pulling graph is asked for is answered (watch_discard rebuilds what is not).
DiscardAnswered == IsDiscarding ~> ~IsDiscarding \/ ~active

\* A ring drained by a seek sounds again, primed or with the short tail of the song.
SeekSounds == silent ~> ~silent \/ IsDiscarding \/ ~active

\* A fade out ends in silence the engine is told of, unless the ring runs out of frames
\* first (shape, and quiet stored once the level is silent).
FadeEnds == silenced ~> quiet \/ ~silenced \/ ~active \/ IsDiscarding \/ ring = <<>>

\* A paused stream stands down, whether or not anything was left in it to fade.
PausedStandsDown == ~playing ~> playing \/ ~active

=============================================================================
