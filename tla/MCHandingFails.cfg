\* A row rendered ahead fails while the row leaving is still heard.
CONSTANTS
  Items = {"loud", "soft", "other", "lost"}
  Stream <- Streams
  Unopenable = {"lost"}
  Breaking = {"loud"}
  Loads <- Lists
  Length = 3
  Capacity = 2
  Latency = 1
  TurnsWaiting = 2
  MaxPlaces = 3
  Overrun = 1
  SeekTargets = {0, 1}
  MaxAsked = 3
SPECIFICATION Spec
PROPERTY AnnouncedAsTheGraphReachesIt
CHECK_DEADLOCK FALSE
