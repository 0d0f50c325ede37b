\* The page's picture, for every way to cut each plan into frames.  The plans
\* are finite, and a failed session stops.
SPECIFICATION FairSpec
CONSTANTS
  Plans <- MCPlans
  BufferSize = 8
  MaxGrow = 16
INVARIANTS
  ReadInStep
  NeverStopsAsking
  PictureExplained
PROPERTIES
  CatchesUp
CHECK_DEADLOCK FALSE
