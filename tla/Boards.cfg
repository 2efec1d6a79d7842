SPECIFICATION Spec
CONSTANTS
  Slots = 2
  Image = 1
  MaxCommands = 3
  MaxFaults = 1
  Pages = 3
  PageFrames = 1
  BufferFrames = 2
  Sizes = {0, 2, 3, 4}
  MaxDownloads = 2
  MaxMishaps = 1
CHECK_DEADLOCK FALSE
INVARIANT TypeOK StatusAgrees RegistersKept BufferKept
PROPERTY UpgradeGivenUp ConfirmedWhole StartedInFull
