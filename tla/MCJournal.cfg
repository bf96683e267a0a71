\* Two writes of every way, and two of anything that goes wrong.
CONSTANTS
  Cells = {"a", "b"}
  MaxPages = 3
  Ways = {"pages", "head", "whole"}
  ShrinksInPlace = FALSE
  Bare = TRUE
  WritesBack = TRUE
  TornWays = {"pages", "head"}
  MaxWrites = 2
  MaxFaults = 2
  MaxMeddlings = 1
SPECIFICATION Spec
PROPERTIES KeepsItsPromise OthersStand LeftIsMended
\* Every write may have been made.
CHECK_DEADLOCK FALSE
