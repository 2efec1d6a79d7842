SPECIFICATION Spec
CONSTANTS
  ImageLen = 3
  SlotSize = 4
  Block = 2
  AckEvery = 2
  KeyFrames = 1
  Builds = {{"udp"}, {"can"}, {"udp", "can"}}
  MaxFails = 1
  MaxRuns = 2
  MaxLost = 1
CHECK_DEADLOCK FALSE
INVARIANT TypeOK
INVARIANT CountsAgree
INVARIANT VerifiedStays
INVARIANT ConfirmedNotShort
