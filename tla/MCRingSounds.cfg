\* Seeks, splices, a pause or a sleep fade, on a graph that may stop pulling.
CONSTANTS
  Capacity = 4
  Whole = 2
  Overs = {2}
  Fades = TRUE
  Pulls = {1, 2}
  Ahead = 1
  Blended = 1
  LeadIns = {3}
  RendersInTime = TRUE
  GraphPulls = FALSE
  MaxWritten = 7
  MaxDiscards = 1
  MaxSplices = 2
  MaxFades = 1
SPECIFICATION Spec
INVARIANTS HeardInOrder ReadAgrees HeldWithinCapacity SpliceLandsWhole AudibleMeansWhole
PROPERTY StaleNeverHeard
