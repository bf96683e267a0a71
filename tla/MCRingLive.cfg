\* What a pulling graph and a running engine must come to.
CONSTANTS
  Capacity = 4
  Whole = 2
  Overs = {2}
  Fades = TRUE
  Pulls = {2}
  Ahead = 1
  Blended = 1
  LeadIns = {3}
  RendersInTime = TRUE
  GraphPulls = TRUE
  MaxWritten = 3
  MaxDiscards = 1
  MaxSplices = 0
  MaxFades = 2
SPECIFICATION Spec
PROPERTIES DiscardAnswered SeekSounds FadeEnds PausedStandsDown
