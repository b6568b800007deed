SPECIFICATION FairFlow
CONSTANTS
  MaxInflight = 2
  MaxInflightBytes = 3
  KeyframeBytes = 2
  DeltaBytes = {1, 2}
  MaxFrameId = 4
  MaxGeneration = 2
CHECK_DEADLOCK FALSE
INVARIANTS
  BaseNeverMixed FramesAccounted InflightBounded PictureArrives
PROPERTIES
  CallsReturn
