\* Rows of three frames over a ring of two, one frame in the chain.
CONSTANTS
  Items = {"loud", "soft", "other", "lost"}
  Stream <- Streams
  Unopenable = {"lost"}
  Breaking = {"loud"}
  Loads <- Lists
  Length = 3
  Capacity = 2
  Latency = 1
  TurnsWaiting = 2
  MaxPlaces = 3
  Overrun = 1
  SeekTargets = {0, 1}
  MaxAsked = 3
SPECIFICATION Spec
INVARIANTS TheRowShownIsTheRowHeard
PROPERTIES
  TheBoundaryIsWhereTheRowEnters HeardInTurn FinishedOnceHeard SleepsWhenDue
CHECK_DEADLOCK FALSE
