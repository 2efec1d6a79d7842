SPECIFICATION FairSpec
CONSTANTS
  MaxSleeps = 2
  MaxPresses = 1
  MaxSwitches = 1
CHECK_DEADLOCK FALSE
INVARIANT OrderlyPower SwitchSettles NoWakeLost
PROPERTY WaitersResume HeartGoesOn
