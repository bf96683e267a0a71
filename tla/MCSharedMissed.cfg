\* A record of the other member may come before the answer to what is pushed.
CONSTANTS
  Songs = {1, 2, 3, 4}
  Entries = {1, 2, 3, 4}
  Base = 4
  Width = 3
  SharedAtFirst <- MCSharedAtFirst
  Lacks <- MCLacks
  Skew <- MCSkew
  CompactPast = 2
  MaxTroubles = 2
  Mishaps = {"overlap"}
SPECIFICATION Spec
INVARIANT EditsAreKept
\* Nothing is left to do once everyone rests.
CHECK_DEADLOCK FALSE
