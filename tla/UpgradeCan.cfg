SPECIFICATION Spec
CONSTANTS
  ImageLen = 3
  SlotSize = 4
  Block = 2
  AckEvery = 2
  KeyFrames = 1
  Builds = {{"can"}}
  MaxFails = 0
  MaxRuns = 2
  MaxLost = 2
CHECK_DEADLOCK FALSE
PROPERTY ConfirmedImageIntact
