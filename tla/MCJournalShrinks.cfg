\* One write that cuts the track, and its taking back cut short.
CONSTANTS
  Cells = {"a", "b"}
  MaxPages = 2
  Ways = {"pages"}
  ShrinksInPlace = TRUE
  Bare = FALSE
  WritesBack = TRUE
  TornWays = {"pages"}
  MaxWrites = 1
  MaxFaults = 2
  MaxMeddlings = 0
SPECIFICATION Spec
INVARIANT NothingTorn
\* Every write may have been made.
CHECK_DEADLOCK FALSE
