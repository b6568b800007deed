SPECIFICATION PenSpec
CONSTANTS
  CAPACITY = 1
  freeze_on_pen_down = TRUE
  MaxStroke = 2
  MaxGeneration = 2
INVARIANTS
  PenStream PenLeaves InkFollowsDown FreezeHolds
