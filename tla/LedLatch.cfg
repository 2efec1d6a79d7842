SPECIFICATION Spec
CONSTANTS
  Threads = {rx, tx}
  HalfPeriod = 2
  Timeout = 8
  SelfTest = 3
  CallTicks = 3
  MaxActivity = 1
PROPERTY ErrorLightLocked
