\* A song filed elsewhere, the engine told before anything else happens, and keeping
\* turned off and on again.
CONSTANTS
  Items = {"a", "b"}
  Resumes = FALSE
  MaxPlaces = 2
  MaxArrivals = 1
  Moves <- FiledElsewhere
  TellsAtOnce = TRUE
  TurnsResumingOff = TRUE
SPECIFICATION KeepingSpec
INVARIANTS KeptIsWhatStands
\* A queue with every place given out may have no row left to play.
CHECK_DEADLOCK FALSE
