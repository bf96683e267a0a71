\* Two people, one of whom lacks a song of the list, and two troubles: edits by hand,
\* visits that break, deaths.
CONSTANTS
  Songs = {1, 2, 3, 4}
  Entries = {1, 2, 3, 4}
  Base = 4
  Width = 3
  SharedAtFirst <- MCSharedAtFirst
  Lacks <- MCLacks
  Skew <- MCSkew
  CompactPast = 2
  MaxTroubles = 2
  Mishaps = {"rescan"}
SPECIFICATION Spec
INVARIANTS RestedMembersAgree EditsAreKept CopyShowsTheList
PROPERTY EveryoneComesToRest
\* Nothing is left to do once everyone rests.
CHECK_DEADLOCK FALSE
