\* One favourite edited thrice on two devices, and one thing that goes wrong.
CONSTANTS
  Devices = {1, 2}
  Keys = {1}
  HeldAtFirst <- Held
  Wall <- Skewed
  WallMovesOn = TRUE
  CompactPast = 2
  MaxEdits = 3
  MaxTurns = 1
SPECIFICATION Spec
INVARIANTS RestedReadersAgree NoWordIsForgotten OneWordAStamp
PROPERTIES RowsOnlyMoveOn EditsStand DevicesComeToAgree
\* Every edit may have been made.
CHECK_DEADLOCK FALSE
