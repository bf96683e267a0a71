\* A space lost once, and filled again before another device links.
CONSTANTS
  Devices = {1, 2}
  Keys = {1}
  HeldAtFirst <- Held
  Wall <- Skewed
  WallMovesOn = TRUE
  CompactPast = 2
  MaxEdits = 2
  MaxTurns = 1
SPECIFICATION Spec
INVARIANT RestedDevicesAgree
\* Every edit may have been made.
CHECK_DEADLOCK FALSE
