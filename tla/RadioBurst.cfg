SPECIFICATION Spec
CONSTANTS
  Senders = {s1}
  MaxSends = 1
  MaxFrames = 2
  MaxOps = 1
  HasPower = TRUE
  QueueLen = 1
PROPERTY NoFrameFlushed
