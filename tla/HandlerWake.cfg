SPECIFICATION UsualSpec
CONSTANTS
  MaxSleeps = 1
  MaxPresses = 1
  MaxSwitches = 0
CHECK_DEADLOCK FALSE
INVARIANT SleepPowersOff
