\* One file in up to four rows, and every queue an earlier run may have left.
CONSTANTS
  Items = {"a"}
  Resumes = TRUE
  MaxPlaces = 4
  MaxArrivals = 2
SPECIFICATION Spec
INVARIANTS
  TypeOK SeatStands ListIsWhatUnshufflingDraws StampsAgree ShownIsWhatStands
  MoveIsARebuild FollowsIsWhatPlays RemovalHandsOn RowsAreWhereTheyAreDrawn
  EditsKeepWhatIsHeard TheRestStand
\* A queue with every place given out may have no row left to play.
CHECK_DEADLOCK FALSE
